---- MODULE Spec2Model ----
(***************************************************************************)
(* Session cost ledger and circuit breaker of DUCK-E                       *)
(* (app/middleware/cost_protection.py, app/cost_tracking_wrapper.py).      *)
(*                                                                         *)
(* Units.  Money is kept in micro-dollars: tokens / 1_000_000 * rate, with *)
(* rate in USD per million tokens, is tokens * rate micro-dollars, so the  *)
(* code's float expressions are carried as their exact real value in the   *)
(* ledger.  The rounding of Python's floats is modelled where the          *)
(* arithmetic itself is examined: total_cost is calculate_cost in binary64.*)
(* Time is in seconds since the tracker was constructed.                   *)
(*                                                                         *)
(* Optional values (Python None) are sequences: << >> is None, <<v>> is v. *)
(*                                                                         *)
(* Libraries.  The store follows Redis: HSET creates the key and keeps its *)
(* expiry, EXPIRE does nothing on a missing key.  The metrics follow       *)
(* prometheus_client: Counter.inc raises ValueError on a negative amount.  *)
(***************************************************************************)
EXTENDS Integers, Sequences, FiniteSets, TLC

VARIABLES
    session_costs,              \* dict session id -> cumulative cost
    session_tokens,             \* dict session id -> [input, output]
    session_start_times,        \* dict session id -> start time
    circuit_breaker_active,     \* bool
    circuit_breaker_reset_time, \* Optional[datetime]
    redis_client,               \* whether an external store client was given
    redis,                      \* the store: key session:{id} -> hash + expiry
    tasks,                      \* coroutines suspended on a store call, in invocation order
    now,                        \* the clock datetime.utcnow() reads
    calls,                      \* number of track_usage invocations so far
    last,                       \* what the step just taken did and returned
    exceeded,                   \* ids whose current session got a budget-exceeded verdict
    open_sessions,              \* ids with start_session called and end_session not completed
    emitted,                    \* Prometheus updates made by the step just taken
    reported                    \* per started id: what its callers have reported since the start

vars == <<session_costs, session_tokens, session_start_times,
          circuit_breaker_active, circuit_breaker_reset_time,
          redis_client, redis, tasks, now, calls, last, exceeded, open_sessions,
          emitted, reported>>

ledger == <<session_costs, session_tokens, session_start_times>>
breaker == <<circuit_breaker_active, circuit_breaker_reset_time>>

----------------------------------------------------------------------------
(* Bounds of the exploration *)

MaxTime == 3600
\* track_usage invocations in one behaviour; one more where the clock stands
\* still, so that a call can follow the one that raised
MaxCalls == 2
MaxLedgerCalls == 3
\* coroutines suspended on the store at the same time
MaxTasks == 2

SessionIds == {"s1", "s2"}
TickSeconds == {1800}

\* (model, input_tokens, output_tokens) of the usage events that are reported:
\* one that costs exactly the session cap, one cheap call to an unlisted model
UsageEvents ==
    { <<"gpt-5", 50000, 150000>>,
      <<"llama", 1000, 2000>> }

\* the ledger is also driven with a negative token count and with one event
\* that costs the whole circuit breaker threshold
LedgerEvents ==
    UsageEvents \cup
    { <<"gpt-5", -20000, 0>>,
      <<"gpt-realtime", 0, 500000>> }

\* with a store client the calls of one session overlap: one id, and two
\* events of different cost so that the order of the calls shows in the sums
\* arguments of the calls to calculate_cost on its own
PricedModels == {"gpt-5", "gpt-5-mini", "gpt-realtime", "unknown-model", ""}
TokenCounts == {0, 1, 2, 3, 50000, 100000, 200000, 500000, 1000000}
StoreIds == {"s1"}
StoreEvents ==
    { <<"gpt-5", 20000, 60000>>,
      <<"llama", 1000, 2000>> }

----------------------------------------------------------------------------
(* Configuration: CostProtectionConfig defaults *)

MICRO == 1000000

max_session_cost_usd == 5 * MICRO
max_session_duration_minutes == 30
circuit_breaker_threshold_usd == 100 * MICRO
circuit_breaker_reset_minutes == 60
gpt5_input_cost_per_1m == 10
gpt5_output_cost_per_1m == 30
gpt5_mini_input_cost_per_1m == 3
gpt5_mini_output_cost_per_1m == 15
gpt_realtime_input_cost_per_1m == 100
gpt_realtime_output_cost_per_1m == 200
ttl_buffer_seconds == 300

\* cost arguments handed to check_budget by a caller
CostChoices == {0, max_session_cost_usd}

None == << >>
Some(v) == <<v>>
\* max(0, x) without the clamp
Max0_unclamped(x) == x

Max0(x) == IF x > 0 THEN x ELSE 0

----------------------------------------------------------------------------
(* Dict helpers *)

Has(d, k) == k \in DOMAIN d
Get(d, k, default) == IF k \in DOMAIN d THEN d[k] ELSE default
Put(d, k, v) == [x \in DOMAIN d \cup {k} |-> IF x = k THEN v ELSE d[x]]
Pop(d, k) == [x \in DOMAIN d \ {k} |-> d[x]]
EmptyDict == [x \in {} |-> 0]

RECURSIVE SumOver(_, _)
SumOver(d, S) ==
    IF S = {} THEN 0
    ELSE LET k == CHOOSE x \in S : TRUE IN d[k] + SumOver(d, S \ {k})

\* sum(tracker.session_costs.values())
TotalCost == SumOver(session_costs, DOMAIN session_costs)

----------------------------------------------------------------------------
(* SessionCostTracker.calculate_cost *)

\* an unknown model priced at the gpt-5 input rate
input_cost_per_1m_unknown_gpt5(model) ==
    IF model = "gpt-5" THEN gpt5_input_cost_per_1m
    ELSE IF model = "gpt-5-mini" THEN gpt5_mini_input_cost_per_1m
    ELSE IF model = "gpt-realtime" THEN gpt_realtime_input_cost_per_1m
    ELSE gpt5_input_cost_per_1m

input_cost_per_1m(model) ==
    IF model = "gpt-5" THEN gpt5_input_cost_per_1m
    ELSE IF model = "gpt-5-mini" THEN gpt5_mini_input_cost_per_1m
    ELSE IF model = "gpt-realtime" THEN gpt_realtime_input_cost_per_1m
    ELSE gpt5_mini_input_cost_per_1m

output_cost_per_1m(model) ==
    IF model = "gpt-5" THEN gpt5_output_cost_per_1m
    ELSE IF model = "gpt-5-mini" THEN gpt5_mini_output_cost_per_1m
    ELSE IF model = "gpt-realtime" THEN gpt_realtime_output_cost_per_1m
    ELSE gpt5_mini_output_cost_per_1m

calculate_cost(model, input_tokens, output_tokens) ==
    LET input_cost == input_tokens * input_cost_per_1m(model)
        output_cost == output_tokens * output_cost_per_1m(model)
    IN  input_cost + output_cost

----------------------------------------------------------------------------
(* The same expression in the arithmetic Python evaluates it in.  A float  *)
(* is an IEEE-754 binary64: 53 significant bits, every operation rounded   *)
(* to nearest, ties to even.  A float is carried as [m, e]: m the 53 bits  *)
(* of the significand, most significant first, and e the power of two of   *)
(* its last bit; zero is the empty significand.  Token counts are taken    *)
(* non-negative here, and the values stay far from overflow and from the   *)
(* subnormal range.                                                        *)

mant_dig == 53

\* the digit strings are added, multiplied and divided ten digits at a time
limb_bits == 10
limb == 2^limb_bits

Zeros(k) == [i \in 1..k |-> 0]

StripZeros(bits) ==
    IF \A i \in 1..Len(bits) : bits[i] = 0 THEN << >>
    ELSE LET first == CHOOSE i \in 1..Len(bits) :
                         bits[i] = 1 /\ \A j \in 1..(i - 1) : bits[j] = 0
         IN  SubSeq(bits, first, Len(bits))

\* the binary digits of a natural number below 2^width, most significant first
BitsOfWidth(n, width) == [i \in 1..width |-> (n \div 2^(width - i)) % 2]

\* the number a digit string denotes
RECURSIVE ValueOf(_)
ValueOf(bits) ==
    IF Len(bits) = 0 THEN 0
    ELSE IF Len(bits) = 1 THEN bits[1]
    ELSE LET h == Len(bits) \div 2
         IN  ValueOf(SubSeq(bits, 1, h)) * 2^(Len(bits) - h)
                + ValueOf(SubSeq(bits, h + 1, Len(bits)))

\* a digit string as limbs of limb_bits digits, least significant limb first
LimbsOf(bits, n) ==
    LET padded == Zeros(n * limb_bits - Len(bits)) \o bits
    IN  [j \in 1..n |->
            ValueOf(SubSeq(padded, (n - j) * limb_bits + 1, (n - j + 1) * limb_bits))]

BitsOfLimbs(limbs) ==
    [i \in 1..(Len(limbs) * limb_bits) |->
        LET j == Len(limbs) - ((i - 1) \div limb_bits)
            k == (i - 1) % limb_bits
        IN  (limbs[j] \div 2^(limb_bits - 1 - k)) % 2]

\* the carry out of limb j of a + b
RECURSIVE AddCarry(_, _, _)
AddCarry(a, b, j) ==
    IF j = 0 THEN 0 ELSE (a[j] + b[j] + AddCarry(a, b, j - 1)) \div limb

AddBits(x, y) ==
    LET len == IF Len(x) > Len(y) THEN Len(x) ELSE Len(y)
        n == (len + limb_bits - 1) \div limb_bits
        a == LimbsOf(x, n) \o << >>
        b == LimbsOf(y, n) \o << >>
    IN  BitsOfLimbs([j \in 1..(n + 1) |->
                        IF j <= n THEN (a[j] + b[j] + AddCarry(a, b, j - 1)) % limb
                        ELSE AddCarry(a, b, n)] \o << >>) \o << >>

\* the carry out of limb j of a * k
RECURSIVE MulCarry(_, _, _)
MulCarry(a, k, j) ==
    IF j = 0 THEN 0 ELSE (a[j] * k + MulCarry(a, k, j - 1)) \div limb

\* digit string times a natural number below limb
MulBits(x, k) ==
    LET n == (Len(x) + limb_bits - 1) \div limb_bits
        a == LimbsOf(x, n) \o << >>
    IN  BitsOfLimbs([j \in 1..(n + 1) |->
                        IF j <= n THEN (a[j] * k + MulCarry(a, k, j - 1)) % limb
                        ELSE MulCarry(a, k, n)] \o << >>) \o << >>

float_zero == [m |-> << >>, e |-> 0]

\* the float nearest to bits * 2^e (plus, when sticky, a non-zero amount
\* under the last bit): round to nearest, ties to even
round_to_float(bits, e, sticky) ==
    LET b == StripZeros(bits)
        n == Len(b)
    IN  IF n = 0 THEN float_zero
        ELSE IF n <= mant_dig
        THEN [m |-> b \o Zeros(mant_dig - n), e |-> e - (mant_dig - n)]
        ELSE LET kept == SubSeq(b, 1, mant_dig)
                 half == b[mant_dig + 1] = 1
                 rest == sticky \/ \E i \in (mant_dig + 2)..n : b[i] = 1
                 up == half /\ (rest \/ kept[mant_dig] = 1)
                 e2 == e + (n - mant_dig)
                 inc == StripZeros(AddBits(kept, <<1>>))
             IN  IF ~up THEN [m |-> kept, e |-> e2]
                 ELSE IF Len(inc) > mant_dig
                 THEN [m |-> SubSeq(inc, 1, mant_dig), e |-> e2 + 1]
                 ELSE [m |-> inc, e |-> e2]

\* limbs of the quotient computed after the binary point: enough for
\* mant_dig + 2 significant digits of any quotient n / d with d < 2^21
frac_limbs == 9

\* what is left of r / d after j limbs of the quotient
RECURSIVE RemAfter(_, _, _)
RemAfter(r, d, j) == IF j = 0 THEN r ELSE (RemAfter(r, d, j - 1) * limb) % d

\* int / int: the correctly rounded quotient
float_truediv(n, d) ==
    IF n = 0 THEN float_zero
    ELSE LET frac == [j \in 1..frac_limbs |->
                        (RemAfter(n % d, d, frac_limbs - j) * limb) \div d] \o << >>
             bits == (BitsOfWidth(n \div d, 31) \o << >>) \o (BitsOfLimbs(frac) \o << >>)
         IN  round_to_float(bits, 0 - frac_limbs * limb_bits,
                            RemAfter(n % d, d, frac_limbs) # 0)

\* float * rate, for a rate of integral value
float_mul(x, rate) ==
    IF x = float_zero \/ rate = 0 THEN float_zero
    ELSE round_to_float(MulBits(x.m, rate), x.e, FALSE)

\* float + float
float_add(x, y) ==
    IF x = float_zero THEN y
    ELSE IF y = float_zero THEN x
    ELSE LET lo == IF x.e < y.e THEN x.e ELSE y.e
         IN  round_to_float(AddBits(x.m \o Zeros(x.e - lo), y.m \o Zeros(y.e - lo)),
                            lo, FALSE)

\* calculate_cost as the interpreter computes it
total_cost(model, input_tokens, output_tokens) ==
    LET input_cost == float_mul(float_truediv(input_tokens, MICRO), input_cost_per_1m(model))
        output_cost == float_mul(float_truediv(output_tokens, MICRO), output_cost_per_1m(model))
    IN  float_add(input_cost, output_cost)

----------------------------------------------------------------------------
(* SessionCostTracker._get_warnings and check_budget *)

\* _get_warnings stopping at the first failing predicate
_get_warnings_first_only(budget_ok, duration_ok, circuit_breaker_ok) ==
    IF ~budget_ok THEN <<"Session budget limit exceeded">>
    ELSE IF ~duration_ok THEN <<"Session duration limit exceeded">>
    ELSE IF ~circuit_breaker_ok THEN <<"System-wide circuit breaker is active">>
    ELSE << >>

_get_warnings(budget_ok, duration_ok, circuit_breaker_ok) ==
    (IF ~budget_ok THEN <<"Session budget limit exceeded">> ELSE << >>)
    \o (IF ~duration_ok THEN <<"Session duration limit exceeded">> ELSE << >>)
    \o (IF ~circuit_breaker_ok THEN <<"System-wide circuit breaker is active">> ELSE << >>)

\* check_budget with the breaker left out of the verdict
check_budget_without_breaker(session_id, current_cost) ==
    LET budget_ok == current_cost < max_session_cost_usd
        remaining_budget == max_session_cost_usd - current_cost
        max_duration_seconds == max_session_duration_minutes * 60
        known == Has(session_start_times, session_id)
        duration == IF known THEN now - session_start_times[session_id] ELSE 0
        duration_ok == IF known THEN duration < max_duration_seconds ELSE TRUE
        remaining_duration == IF known THEN max_duration_seconds - duration
                              ELSE max_duration_seconds
        overall_ok == budget_ok /\ duration_ok
    IN  [ budget_ok |-> overall_ok,
          remaining_budget_usd |-> Max0(remaining_budget),
          remaining_duration_seconds |-> Max0(remaining_duration),
          circuit_breaker_active |-> circuit_breaker_active,
          warnings |-> _get_warnings(budget_ok, duration_ok, TRUE) ]

\* check_budget with both limits compared with <= instead of <
check_budget_inclusive(session_id, current_cost) ==
    LET budget_ok == current_cost <= max_session_cost_usd
        remaining_budget == max_session_cost_usd - current_cost
        max_duration_seconds == max_session_duration_minutes * 60
        known == Has(session_start_times, session_id)
        duration == IF known THEN now - session_start_times[session_id] ELSE 0
        duration_ok == IF known THEN duration <= max_duration_seconds ELSE TRUE
        remaining_duration == IF known THEN max_duration_seconds - duration
                              ELSE max_duration_seconds
        circuit_breaker_ok == ~circuit_breaker_active
        overall_ok == budget_ok /\ duration_ok /\ circuit_breaker_ok
    IN  [ budget_ok |-> overall_ok,
          remaining_budget_usd |-> Max0(remaining_budget),
          remaining_duration_seconds |-> Max0(remaining_duration),
          circuit_breaker_active |-> circuit_breaker_active,
          warnings |-> _get_warnings(budget_ok, duration_ok, circuit_breaker_ok) ]

\* check_budget measuring an id without start time from the construction of
\* the tracker instead of taking the else branch of lines 299-301
check_budget_unknown_timed(session_id, current_cost) ==
    LET budget_ok == current_cost < max_session_cost_usd
        remaining_budget == max_session_cost_usd - current_cost
        max_duration_seconds == max_session_duration_minutes * 60
        duration == now - Get(session_start_times, session_id, 0)
        duration_ok == duration < max_duration_seconds
        remaining_duration == max_duration_seconds - duration
        circuit_breaker_ok == ~circuit_breaker_active
        overall_ok == budget_ok /\ duration_ok /\ circuit_breaker_ok
    IN  [ budget_ok |-> overall_ok,
          remaining_budget_usd |-> Max0(remaining_budget),
          remaining_duration_seconds |-> Max0(remaining_duration),
          circuit_breaker_active |-> circuit_breaker_active,
          warnings |-> _get_warnings(budget_ok, duration_ok, circuit_breaker_ok) ]

check_budget(session_id, current_cost) ==
    LET budget_ok == current_cost < max_session_cost_usd
        remaining_budget == max_session_cost_usd - current_cost
        max_duration_seconds == max_session_duration_minutes * 60
        known == Has(session_start_times, session_id)
        duration == IF known THEN now - session_start_times[session_id] ELSE 0
        duration_ok == IF known THEN duration < max_duration_seconds ELSE TRUE
        remaining_duration == IF known THEN max_duration_seconds - duration
                              ELSE max_duration_seconds
        circuit_breaker_ok == ~circuit_breaker_active
        overall_ok == budget_ok /\ duration_ok /\ circuit_breaker_ok
    IN  [ budget_ok |-> overall_ok,
          remaining_budget_usd |-> Max0(remaining_budget),
          remaining_duration_seconds |-> Max0(remaining_duration),
          circuit_breaker_active |-> circuit_breaker_active,
          warnings |-> _get_warnings(budget_ok, duration_ok, circuit_breaker_ok) ]

\* the dict track_usage returns: its own fields merged with the budget status
UsageResult(session_id, model, input_tokens, output_tokens, cost, new_cost) ==
    LET budget_status == check_budget(session_id, new_cost)
    IN  [ session_id |-> session_id,
          model |-> model,
          input_tokens |-> input_tokens,
          output_tokens |-> output_tokens,
          call_cost |-> cost,
          session_cost |-> new_cost,
          budget_ok |-> budget_status.budget_ok,
          remaining_budget_usd |-> budget_status.remaining_budget_usd,
          remaining_duration_seconds |-> budget_status.remaining_duration_seconds,
          circuit_breaker_active |-> budget_status.circuit_breaker_active,
          warnings |-> budget_status.warnings ]

----------------------------------------------------------------------------
(* The external store: hset / expire / delete on key session:{id} *)

NoHash == [start_time |-> None, cost |-> None, input_tokens |-> None,
           output_tokens |-> None, expire_at |-> None]

\* HSET key field value ...: creates the key when missing, keeps other fields and the expiry
redis_hset_start(store, session_id, start_time) ==
    Put(store, session_id,
        [Get(store, session_id, NoHash) EXCEPT
            !.start_time = Some(start_time), !.cost = Some(0),
            !.input_tokens = Some(0), !.output_tokens = Some(0)])

redis_hset_usage(store, session_id, cost, input_tokens, output_tokens) ==
    Put(store, session_id,
        [Get(store, session_id, NoHash) EXCEPT
            !.cost = Some(cost),
            !.input_tokens = Some(input_tokens), !.output_tokens = Some(output_tokens)])

\* EXPIRE key seconds: no effect on a missing key
redis_expire(store, session_id, seconds) ==
    IF Has(store, session_id)
    THEN [store EXCEPT ![session_id].expire_at = Some(now + seconds)]
    ELSE store

redis_delete(store, session_id) == Pop(store, session_id)

\* keys whose time-to-live has run out at time t are gone
redis_expired(store, t) ==
    [k \in {x \in DOMAIN store :
                store[x].expire_at = None \/ store[x].expire_at[1] > t} |-> store[k]]

----------------------------------------------------------------------------
(* What a step reports *)

Report(op, session_id, result) ==
    [op |-> op, sid |-> session_id, result |-> result]

RemoveAt(seq, i) == SubSeq(seq, 1, i - 1) \o SubSeq(seq, i + 1, Len(seq))

\* ids whose current session has been told its budget is exhausted
Exceeded(old, result) ==
    IF ~result.budget_ok /\ result.session_cost >= max_session_cost_usd
    THEN old \cup {result.session_id} ELSE old

----------------------------------------------------------------------------
(* Prometheus metrics: what one step does to them, in program order *)

Emit(metric, labels, amount) ==
    [metric |-> metric, labels |-> labels, amount |-> amount]

\* start_session line 132, end_session lines 158 and 161
active_sessions_inc == Emit("active_sessions_total", << >>, 1)
active_sessions_dec == Emit("active_sessions_total", << >>, -1)
session_duration_observe(duration) ==
    Emit("session_duration_seconds", <<"completed">>, duration)

\* track_usage lines 242-244.  The three metrics are Counters, and a Counter
\* refuses a negative amount: inc raises ValueError and the updates after it
\* are not made.
usage_metrics(session_id, model, input_tokens, output_tokens, cost) ==
    IF cost < 0 THEN << >>
    ELSE <<Emit("api_cost_total_usd", <<model, session_id>>, cost)>> \o
         (IF input_tokens < 0 THEN << >>
          ELSE <<Emit("token_usage_total", <<model, "input">>, input_tokens)>> \o
               (IF output_tokens < 0 THEN << >>
                ELSE <<Emit("token_usage_total", <<model, "output">>, output_tokens)>>))

usage_metrics_raise(input_tokens, output_tokens, cost) ==
    cost < 0 \/ input_tokens < 0 \/ output_tokens < 0

\* check_budget lines 309-310
budget_metrics(session_id, budget_status) ==
    IF ~budget_status.budget_ok
    THEN <<Emit("budget_exceeded_total", <<session_id>>, 1)>>
    ELSE << >>

\* the ledger values a started id must show: zero cost and the token counters
\* found at the start, plus everything reported since
reported_at_start(session_id) ==
    [cost |-> 0,
     input |-> Get(session_tokens, session_id, [input |-> 0, output |-> 0]).input,
     output |-> Get(session_tokens, session_id, [input |-> 0, output |-> 0]).output]

reported_after(session_id, cost, input_tokens, output_tokens) ==
    IF Has(reported, session_id)
    THEN [reported EXCEPT ![session_id] =
             [cost |-> @.cost + cost,
              input |-> @.input + input_tokens,
              output |-> @.output + output_tokens]]
    ELSE reported

----------------------------------------------------------------------------
Init ==
    /\ session_costs = EmptyDict
    /\ session_tokens = EmptyDict
    /\ session_start_times = EmptyDict
    /\ circuit_breaker_active = FALSE
    /\ circuit_breaker_reset_time = None
    /\ redis_client = FALSE
    /\ redis = EmptyDict
    /\ tasks = << >>
    /\ now = 0
    /\ calls = 0
    /\ last = Report("init", "", None)
    /\ exceeded = {}
    /\ open_sessions = {}
    /\ emitted = << >>
    /\ reported = EmptyDict

----------------------------------------------------------------------------
(* SessionCostTracker.start_session *)

StartSession(session_id) ==
    /\ redis_client => Len(tasks) < MaxTasks
    /\ session_start_times' = Put(session_start_times, session_id, now)
    /\ session_costs' = Put(session_costs, session_id, 0)
    /\ tasks' = IF redis_client
                THEN Append(tasks, [op |-> "start_session", pc |-> "hset",
                                    sid |-> session_id, start_time |-> now])
                ELSE tasks
    /\ last' = Report("start_session", session_id, None)
    /\ exceeded' = exceeded \ {session_id}
    /\ open_sessions' = open_sessions \cup {session_id}
    /\ emitted' = <<active_sessions_inc>>
    /\ reported' = Put(reported, session_id, reported_at_start(session_id))
    /\ UNCHANGED <<session_tokens, breaker, redis_client, redis, now, calls>>

\* the awaited hset returns (ok) or raises (~ok, caught and logged)
StartSessionHset(i, ok) ==
    /\ i \in 1..Len(tasks)
    /\ tasks[i].op = "start_session" /\ tasks[i].pc = "hset"
    /\ redis' = IF ok THEN redis_hset_start(redis, tasks[i].sid, tasks[i].start_time)
                ELSE redis
    /\ tasks' = IF ok THEN [tasks EXCEPT ![i].pc = "expire"] ELSE RemoveAt(tasks, i)
    /\ last' = Report("start_session_hset", tasks[i].sid, None)
    /\ emitted' = << >>
    /\ UNCHANGED <<ledger, breaker, redis_client, now, calls, exceeded, open_sessions,
                   reported>>

StartSessionExpire(i, ok) ==
    /\ i \in 1..Len(tasks)
    /\ tasks[i].op = "start_session" /\ tasks[i].pc = "expire"
    /\ redis' = IF ok
                THEN redis_expire(redis, tasks[i].sid,
                                  max_session_duration_minutes * 60 + ttl_buffer_seconds)
                ELSE redis
    /\ tasks' = RemoveAt(tasks, i)
    /\ last' = Report("start_session_expire", tasks[i].sid, None)
    /\ emitted' = << >>
    /\ UNCHANGED <<ledger, breaker, redis_client, now, calls, exceeded, open_sessions,
                   reported>>

----------------------------------------------------------------------------
(* SessionCostTracker.end_session *)

\* line 156 with the guard dropped
end_session_acts_always(session_id) == TRUE

\* line 156: the whole body is under this condition
end_session_acts(session_id) == Has(session_start_times, session_id)

EndSession(session_id) ==
    /\ redis_client /\ end_session_acts(session_id) => Len(tasks) < MaxTasks
    /\ IF end_session_acts(session_id)
       THEN /\ emitted' = <<session_duration_observe(
                                now - Get(session_start_times, session_id, now)),
                            active_sessions_dec>>
            /\ session_start_times' = Pop(session_start_times, session_id)
            /\ session_costs' = Pop(session_costs, session_id)
            /\ session_tokens' = Pop(session_tokens, session_id)
            /\ reported' = Pop(reported, session_id)
            /\ tasks' = IF redis_client
                        THEN Append(tasks, [op |-> "end_session", pc |-> "delete",
                                            sid |-> session_id])
                        ELSE tasks
       ELSE /\ emitted' = << >>
            /\ UNCHANGED <<ledger, tasks, reported>>
    /\ last' = Report("end_session", session_id, None)
    /\ exceeded' = exceeded \ {session_id}
    /\ open_sessions' = IF end_session_acts(session_id) /\ ~redis_client
                        THEN open_sessions \ {session_id}
                        ELSE open_sessions
    /\ UNCHANGED <<breaker, redis_client, redis, now, calls>>

EndSessionDelete(i, ok) ==
    /\ i \in 1..Len(tasks)
    /\ tasks[i].op = "end_session" /\ tasks[i].pc = "delete"
    /\ redis' = IF ok THEN redis_delete(redis, tasks[i].sid) ELSE redis
    /\ tasks' = RemoveAt(tasks, i)
    /\ last' = Report("end_session_delete", tasks[i].sid, None)
    /\ open_sessions' =
          IF \/ Has(session_start_times, tasks[i].sid)
             \/ \E j \in 1..Len(tasks) :
                   j # i /\ tasks[j].op = "end_session" /\ tasks[j].sid = tasks[i].sid
          THEN open_sessions
          ELSE open_sessions \ {tasks[i].sid}
    /\ emitted' = << >>
    /\ UNCHANGED <<ledger, breaker, redis_client, now, calls, exceeded, reported>>

----------------------------------------------------------------------------
(* SessionCostTracker.track_usage *)

\* lines 233-235: read-modify-write of the session's cumulative cost
new_cost_of(session_id, cost) == Get(session_costs, session_id, 0) + cost

\* the new cost written to one shared total instead of the id's own entry
updated_costs_shared(session_id, new_cost) ==
    [x \in DOMAIN session_costs \cup {session_id} |-> new_cost]

updated_costs(session_id, new_cost) == Put(session_costs, session_id, new_cost)

\* lines 238-239: the defaultdict creates {"input": 0, "output": 0} on first use
updated_tokens(session_id, input_tokens, output_tokens) ==
    LET old == Get(session_tokens, session_id, [input |-> 0, output |-> 0])
    IN  Put(session_tokens, session_id,
            [input |-> old.input + input_tokens, output |-> old.output + output_tokens])

\* up to the store write: without a store client the call runs to its return.
\* A negative amount makes a Counter raise at lines 242-244, after the ledger
\* has been written: the call ends there with ValueError.
TrackUsage(session_id, model, input_tokens, output_tokens) ==
    /\ redis_client => Len(tasks) < MaxTasks
    /\ \E cost \in {calculate_cost(model, input_tokens, output_tokens)} :
       \E new_cost \in {new_cost_of(session_id, cost)} :
           /\ session_costs' = updated_costs(session_id, new_cost)
           /\ session_tokens' = updated_tokens(session_id, input_tokens, output_tokens)
           /\ calls' = calls + 1
           /\ reported' = reported_after(session_id, cost, input_tokens, output_tokens)
           /\ UNCHANGED <<session_start_times, breaker, redis_client, redis, now, open_sessions>>
           /\ IF usage_metrics_raise(input_tokens, output_tokens, cost)
              THEN /\ tasks' = tasks
                   /\ last' = Report("track_usage_raised", session_id,
                                     Some([model |-> model,
                                           input_tokens |-> input_tokens,
                                           output_tokens |-> output_tokens,
                                           raised |-> "ValueError"]))
                   /\ emitted' = usage_metrics(session_id, model, input_tokens,
                                               output_tokens, cost)
                   /\ UNCHANGED exceeded
              ELSE IF redis_client
              THEN /\ tasks' = Append(tasks,
                          [op |-> "track_usage", pc |-> "hset", sid |-> session_id,
                           model |-> model, input_tokens |-> input_tokens,
                           output_tokens |-> output_tokens,
                           cost |-> cost, new_cost |-> new_cost,
                           mapping_input |-> session_tokens'[session_id].input,
                           mapping_output |-> session_tokens'[session_id].output,
                           reported_cost |-> IF Has(reported, session_id)
                                             THEN Some(reported'[session_id].cost)
                                             ELSE None,
                           plain_result |-> UsageResult(session_id, model, input_tokens,
                                                        output_tokens, cost, new_cost)'])
                   /\ last' = Report("track_usage_call", session_id, None)
                   /\ emitted' = usage_metrics(session_id, model, input_tokens,
                                               output_tokens, cost)
                   /\ UNCHANGED exceeded
              ELSE LET result == UsageResult(session_id, model, input_tokens,
                                             output_tokens, cost, new_cost)'
                   IN  /\ tasks' = tasks
                       /\ last' = Report("track_usage", session_id, Some(result))
                       /\ emitted' = usage_metrics(session_id, model, input_tokens,
                                                   output_tokens, cost)
                                      \o budget_metrics(session_id, result)
                       /\ exceeded' = Exceeded(exceeded, result)

\* the resumed call with line 235 moved behind the await: it writes the
\* cumulative cost it computed before it was suspended
TrackUsageHset_writes_after_await(i, ok) ==
    /\ i \in 1..Len(tasks)
    /\ tasks[i].op = "track_usage" /\ tasks[i].pc = "hset"
    /\ \E t \in {tasks[i]} :
       /\ redis' = IF ok
                   THEN redis_hset_usage(redis, t.sid, t.new_cost,
                                         t.mapping_input, t.mapping_output)
                   ELSE redis
       /\ tasks' = RemoveAt(tasks, i)
       /\ session_costs' = Put(session_costs, t.sid, t.new_cost)
       /\ UNCHANGED <<session_tokens, session_start_times, breaker, redis_client, now,
                      calls, open_sessions, reported>>
       /\ LET result == UsageResult(t.sid, t.model, t.input_tokens,
                                    t.output_tokens, t.cost, t.new_cost)'
          IN  /\ last' = Report("track_usage_return", t.sid, Some(result))
              /\ emitted' = budget_metrics(t.sid, result)
              /\ exceeded' = Exceeded(exceeded, result)

\* the resumed call reporting the cumulative cost it finds in the ledger after
\* the await instead of the new_cost it computed at line 234
TrackUsageHset_reads_after_await(i, ok) ==
    /\ i \in 1..Len(tasks)
    /\ tasks[i].op = "track_usage" /\ tasks[i].pc = "hset"
    /\ \E t \in {tasks[i]} :
       /\ redis' = IF ok
                   THEN redis_hset_usage(redis, t.sid, t.new_cost,
                                         t.mapping_input, t.mapping_output)
                   ELSE redis
       /\ tasks' = RemoveAt(tasks, i)
       /\ UNCHANGED <<ledger, breaker, redis_client, now, calls, open_sessions, reported>>
       /\ \E found \in {Get(session_costs, t.sid, 0)} :
          LET result == UsageResult(t.sid, t.model, t.input_tokens,
                                    t.output_tokens, t.cost, found)'
          IN  /\ last' = Report("track_usage_return", t.sid, Some(result))
              /\ emitted' = budget_metrics(t.sid, result)
              /\ exceeded' = Exceeded(exceeded, result)

\* the resumed call without the try/except of lines 248-258: an error of the
\* store ends the call
TrackUsageHset_uncaught(i, ok) ==
    /\ i \in 1..Len(tasks)
    /\ tasks[i].op = "track_usage" /\ tasks[i].pc = "hset"
    /\ \E t \in {tasks[i]} :
       /\ redis' = IF ok
                   THEN redis_hset_usage(redis, t.sid, t.new_cost,
                                         t.mapping_input, t.mapping_output)
                   ELSE redis
       /\ tasks' = RemoveAt(tasks, i)
       /\ UNCHANGED <<ledger, breaker, redis_client, now, calls, open_sessions, reported>>
       /\ IF ok
          THEN LET result == UsageResult(t.sid, t.model, t.input_tokens,
                                         t.output_tokens, t.cost, t.new_cost)'
               IN  /\ last' = Report("track_usage_return", t.sid, Some(result))
                   /\ emitted' = budget_metrics(t.sid, result)
                   /\ exceeded' = Exceeded(exceeded, result)
          ELSE /\ last' = Report("track_usage_raised", t.sid,
                                 Some([model |-> t.model,
                                       input_tokens |-> t.input_tokens,
                                       output_tokens |-> t.output_tokens,
                                       raised |-> "RedisError"]))
               /\ emitted' = << >>
               /\ UNCHANGED exceeded

\* the store calls completing strictly in the order they were made: a call
\* resumes only when every earlier call has
TrackUsageHset_in_call_order(i, ok) ==
    /\ i = 1
    /\ i \in 1..Len(tasks)
    /\ tasks[i].op = "track_usage" /\ tasks[i].pc = "hset"
    /\ \E t \in {tasks[i]} :
       /\ redis' = IF ok
                   THEN redis_hset_usage(redis, t.sid, t.new_cost,
                                         t.mapping_input, t.mapping_output)
                   ELSE redis
       /\ tasks' = RemoveAt(tasks, i)
       /\ UNCHANGED <<ledger, breaker, redis_client, now, calls, open_sessions, reported>>
       /\ LET result == UsageResult(t.sid, t.model, t.input_tokens,
                                    t.output_tokens, t.cost, t.new_cost)'
          IN  /\ last' = Report("track_usage_return", t.sid, Some(result))
              /\ emitted' = budget_metrics(t.sid, result)
              /\ exceeded' = Exceeded(exceeded, result)

\* the awaited hset returns (ok) or raises (~ok, caught and logged); then
\* check_budget runs and the call returns
TrackUsageHset(i, ok) ==
    /\ i \in 1..Len(tasks)
    /\ tasks[i].op = "track_usage" /\ tasks[i].pc = "hset"
    /\ \E t \in {tasks[i]} :
       /\ redis' = IF ok
                   THEN redis_hset_usage(redis, t.sid, t.new_cost,
                                         t.mapping_input, t.mapping_output)
                   ELSE redis
       /\ tasks' = RemoveAt(tasks, i)
       /\ UNCHANGED <<ledger, breaker, redis_client, now, calls, open_sessions, reported>>
       /\ LET result == UsageResult(t.sid, t.model, t.input_tokens,
                                    t.output_tokens, t.cost, t.new_cost)'
          IN  /\ last' = Report("track_usage_return", t.sid, Some(result))
              /\ emitted' = budget_metrics(t.sid, result)
              /\ exceeded' = Exceeded(exceeded, result)

----------------------------------------------------------------------------
(* SessionCostTracker.check_budget called directly, and check_budget_before_call *)

\* check_budget polling the breaker's reset before it computes the verdict
CheckBudget_polls(session_id, current_cost) ==
    /\ IF circuit_breaker_active /\ circuit_breaker_reset_time # None
          /\ now >= circuit_breaker_reset_time[1]
       THEN /\ circuit_breaker_active' = FALSE
            /\ circuit_breaker_reset_time' = None
       ELSE UNCHANGED breaker
    /\ last' = Report("check_budget", session_id, Some(check_budget(session_id, current_cost)))
    /\ emitted' = budget_metrics(session_id, check_budget(session_id, current_cost))
    /\ UNCHANGED <<ledger, redis_client, redis, tasks, now, calls, exceeded,
                   open_sessions, reported>>

CheckBudget(session_id, current_cost) ==
    /\ last' = Report("check_budget", session_id, Some(check_budget(session_id, current_cost)))
    /\ emitted' = budget_metrics(session_id, check_budget(session_id, current_cost))
    /\ UNCHANGED <<ledger, breaker, redis_client, redis, tasks, now, calls, exceeded,
                   open_sessions, reported>>

\* the check made on a cost of 0.0 whatever the ledger holds for the id
check_budget_before_call_ignores_cost(session_id) ==
    LET budget_status == check_budget(session_id, 0)
    IN  IF ~budget_status.budget_ok THEN FALSE ELSE TRUE

check_budget_before_call(session_id) ==
    LET budget_status == check_budget(session_id, Get(session_costs, session_id, 0))
    IN  IF ~budget_status.budget_ok THEN FALSE ELSE TRUE

CheckBudgetBeforeCall(session_id) ==
    /\ last' = Report("check_budget_before_call", session_id,
                      Some(check_budget_before_call(session_id)))
    /\ emitted' = budget_metrics(session_id,
                                 check_budget(session_id, Get(session_costs, session_id, 0)))
    /\ UNCHANGED <<ledger, breaker, redis_client, redis, tasks, now, calls, exceeded,
                   open_sessions, reported>>

----------------------------------------------------------------------------
(* Circuit breaker *)

\* a second activation adding its cooldown to the one already running
ActivateCircuitBreaker_stacking ==
    /\ circuit_breaker_active' = TRUE
    /\ circuit_breaker_reset_time' =
          IF circuit_breaker_active /\ circuit_breaker_reset_time # None
          THEN Some(circuit_breaker_reset_time[1] + circuit_breaker_reset_minutes * 60)
          ELSE Some(now + circuit_breaker_reset_minutes * 60)
    /\ last' = Report("activate_circuit_breaker", "", circuit_breaker_reset_time)
    /\ emitted' = << >>
    /\ UNCHANGED <<ledger, redis_client, redis, tasks, now, calls, exceeded, open_sessions,
                   reported>>

\* the call returns nothing; the record of the step keeps the reset time it
\* overwrote
ActivateCircuitBreaker ==
    /\ circuit_breaker_active' = TRUE
    /\ circuit_breaker_reset_time' = Some(now + circuit_breaker_reset_minutes * 60)
    /\ last' = Report("activate_circuit_breaker", "", circuit_breaker_reset_time)
    /\ emitted' = << >>
    /\ UNCHANGED <<ledger, redis_client, redis, tasks, now, calls, exceeded, open_sessions,
                   reported>>

\* the cooldown compared with > instead of >=
reset_due_strict ==
    /\ circuit_breaker_active
    /\ circuit_breaker_reset_time # None
    /\ now > circuit_breaker_reset_time[1]

\* every poll of an active breaker resets it
reset_due_early ==
    /\ circuit_breaker_active
    /\ circuit_breaker_reset_time # None

\* the condition under which check_circuit_breaker resets
reset_due ==
    /\ circuit_breaker_active
    /\ circuit_breaker_reset_time # None
    /\ now >= circuit_breaker_reset_time[1]

\* the reset clearing the flag and leaving the reset time behind
CheckCircuitBreaker_keeps_reset_time ==
    /\ IF reset_due
       THEN /\ circuit_breaker_active' = FALSE
            /\ UNCHANGED circuit_breaker_reset_time
       ELSE UNCHANGED breaker
    /\ last' = Report("check_circuit_breaker", "",
                      IF reset_due THEN Some("Circuit breaker reset") ELSE None)
    /\ emitted' = << >>
    /\ UNCHANGED <<ledger, redis_client, redis, tasks, now, calls, exceeded, open_sessions,
                   reported>>

CheckCircuitBreaker ==
    /\ IF reset_due
       THEN /\ circuit_breaker_active' = FALSE
            /\ circuit_breaker_reset_time' = None
       ELSE UNCHANGED breaker
    /\ last' = Report("check_circuit_breaker", "",
                      IF reset_due THEN Some("Circuit breaker reset") ELSE None)
    /\ emitted' = << >>
    /\ UNCHANGED <<ledger, redis_client, redis, tasks, now, calls, exceeded, open_sessions,
                   reported>>

----------------------------------------------------------------------------
(* CostProtectionMiddleware.__call__: one request.  check_circuit_breaker  *)
(* never suspends, so the poll and the test of the flag are one step.  The *)
(* record of the step holds the response sent, or that the request went to *)
(* the downstream app.                                                     *)

ScopeTypes == {"http", "websocket"}

\* the JSONResponse of lines 405-414; the request does not reach the app
Rejected(scope_type, reset_time) ==
    [enabled |-> TRUE, scope_type |-> scope_type,
     status_code |-> Some(503), app_called |-> FALSE,
     content |-> Some([circuit_breaker_active |-> TRUE, reset_time |-> reset_time])]

\* the request is handed to the downstream app, which answers it
Forwarded(enabled, scope_type) ==
    [enabled |-> enabled, scope_type |-> scope_type,
     status_code |-> None, app_called |-> TRUE, content |-> None]

\* the middleware testing the flag without polling the breaker first
CostProtectionMiddleware_without_poll(enabled, scope_type) ==
    /\ UNCHANGED breaker
    /\ last' = Report("middleware", "",
                      Some(IF enabled /\ circuit_breaker_active /\ scope_type = "http"
                           THEN Rejected(scope_type, circuit_breaker_reset_time)
                           ELSE Forwarded(enabled, scope_type)))
    /\ emitted' = << >>
    /\ UNCHANGED <<ledger, redis_client, redis, tasks, now, calls, exceeded, open_sessions,
                   reported>>

\* the middleware polling the breaker before it looks at config.enabled
CostProtectionMiddleware_polls_when_disabled(enabled, scope_type) ==
    /\ IF reset_due
       THEN /\ circuit_breaker_active' = FALSE
            /\ circuit_breaker_reset_time' = None
       ELSE UNCHANGED breaker
    /\ last' = Report("middleware", "",
                      Some(IF enabled /\ circuit_breaker_active /\ ~reset_due
                              /\ scope_type = "http"
                           THEN Rejected(scope_type, circuit_breaker_reset_time)
                           ELSE Forwarded(enabled, scope_type)))
    /\ emitted' = << >>
    /\ UNCHANGED <<ledger, redis_client, redis, tasks, now, calls, exceeded, open_sessions,
                   reported>>

CostProtectionMiddleware(enabled, scope_type) ==
    /\ IF enabled /\ reset_due
       THEN /\ circuit_breaker_active' = FALSE
            /\ circuit_breaker_reset_time' = None
       ELSE UNCHANGED breaker
    /\ last' = Report("middleware", "",
                      Some(IF enabled /\ circuit_breaker_active /\ ~reset_due
                              /\ scope_type = "http"
                           THEN Rejected(scope_type, circuit_breaker_reset_time)
                           ELSE Forwarded(enabled, scope_type)))
    /\ emitted' = << >>
    /\ UNCHANGED <<ledger, redis_client, redis, tasks, now, calls, exceeded, open_sessions,
                   reported>>

----------------------------------------------------------------------------
(* SessionCostTracker.calculate_cost called on its own: it reads the       *)
(* configuration and nothing of the tracker's state                        *)

\* the caller's arguments are in the record of the call
CalculateCost ==
    /\ last.op = "calculate_cost_call"
    /\ last' = Report("calculate_cost", "",
                      Some([model |-> last.result[1].model,
                            input_tokens |-> last.result[1].input_tokens,
                            output_tokens |-> last.result[1].output_tokens,
                            total_cost |-> total_cost(last.result[1].model,
                                                      last.result[1].input_tokens,
                                                      last.result[1].output_tokens)]))
    /\ emitted' = << >>
    /\ UNCHANGED <<ledger, breaker, redis_client, redis, tasks, now, calls, exceeded,
                   open_sessions, reported>>

----------------------------------------------------------------------------
(* The clock advances; keys of the store whose time-to-live ran out vanish *)

Tick(d) ==
    /\ now + d <= MaxTime
    /\ now' = now + d
    /\ redis' = redis_expired(redis, now + d)
    /\ last' = Report("tick", "", None)
    /\ emitted' = << >>
    /\ UNCHANGED <<ledger, breaker, redis_client, tasks, calls, exceeded, open_sessions,
                   reported>>

----------------------------------------------------------------------------
\* the default configuration: no REDIS_URL, the tracker has no store client
Next ==
    \/ \E s \in SessionIds : StartSession(s)
    \/ \E s \in SessionIds : EndSession(s)
    \/ \E s \in SessionIds, e \in UsageEvents :
          calls < MaxCalls /\ TrackUsage(s, e[1], e[2], e[3])
    \/ \E s \in SessionIds, c \in CostChoices : CheckBudget(s, c)
    \/ \E s \in SessionIds : CheckBudgetBeforeCall(s)
    \/ ActivateCircuitBreaker
    \/ CheckCircuitBreaker
    \/ \E d \in TickSeconds : Tick(d)

Spec == Init /\ [][Next]_vars

\* the same tracker while the clock stands still, with the wider range of
\* usage events
NextLedger ==
    \/ \E s \in SessionIds : StartSession(s)
    \/ \E s \in SessionIds : EndSession(s)
    \/ \E s \in SessionIds, e \in LedgerEvents :
          calls < MaxLedgerCalls /\ TrackUsage(s, e[1], e[2], e[3])
    \/ \E s \in SessionIds, c \in CostChoices : CheckBudget(s, c)
    \/ \E s \in SessionIds : CheckBudgetBeforeCall(s)
    \/ ActivateCircuitBreaker
    \/ CheckCircuitBreaker

SpecLedger == Init /\ [][NextLedger]_vars

\* a tracker constructed with a store client: every store call is a point
\* where the coroutine is suspended and other calls run
InitStore ==
    /\ session_costs = EmptyDict
    /\ session_tokens = EmptyDict
    /\ session_start_times = EmptyDict
    /\ circuit_breaker_active = FALSE
    /\ circuit_breaker_reset_time = None
    /\ redis_client = TRUE
    /\ redis = EmptyDict
    /\ tasks = << >>
    /\ now = 0
    /\ calls = 0
    /\ last = Report("init", "", None)
    /\ exceeded = {}
    /\ open_sessions = {}
    /\ emitted = << >>
    /\ reported = EmptyDict

NextStore ==
    \/ \E s \in StoreIds : StartSession(s)
    \/ \E i \in 1..MaxTasks, ok \in BOOLEAN : StartSessionHset(i, ok)
    \/ \E i \in 1..MaxTasks, ok \in BOOLEAN : StartSessionExpire(i, ok)
    \/ \E s \in StoreIds : EndSession(s)
    \/ \E i \in 1..MaxTasks, ok \in BOOLEAN : EndSessionDelete(i, ok)
    \/ \E s \in StoreIds, e \in StoreEvents :
          calls < MaxCalls /\ TrackUsage(s, e[1], e[2], e[3])
    \/ \E i \in 1..MaxTasks, ok \in BOOLEAN : TrackUsageHset(i, ok)

SpecStore == InitStore /\ [][NextStore]_vars

\* the tracker with a store client driven by callers that await each call
\* before making the next one; the clock moves between the calls
NextSequential ==
    \/ \E s \in StoreIds : tasks = << >> /\ StartSession(s)
    \/ \E ok \in BOOLEAN : StartSessionHset(1, ok)
    \/ \E ok \in BOOLEAN : StartSessionExpire(1, ok)
    \/ \E s \in StoreIds : tasks = << >> /\ EndSession(s)
    \/ \E ok \in BOOLEAN : EndSessionDelete(1, ok)
    \/ \E s \in StoreIds, e \in UsageEvents :
          tasks = << >> /\ calls < MaxCalls /\ TrackUsage(s, e[1], e[2], e[3])
    \/ \E ok \in BOOLEAN : TrackUsageHset(1, ok)
    \/ \E d \in TickSeconds : tasks = << >> /\ Tick(d)

SpecSequential == InitStore /\ [][NextSequential]_vars

\* the tracker with a store client, a store that answers every call and
\* callers that use a session as the handler does: start_session is awaited
\* before usage is reported, usage is reported for started sessions, and an
\* id is started again only when the calls made for it have returned.  The
\* track_usage and end_session calls of a session overlap freely.
NextHealthy ==
    \/ \E s \in StoreIds :
          (\A i \in 1..Len(tasks) : tasks[i].sid # s) /\ StartSession(s)
    \/ \E i \in 1..MaxTasks : StartSessionHset(i, TRUE)
    \/ \E i \in 1..MaxTasks : StartSessionExpire(i, TRUE)
    \/ \E s \in StoreIds :
          (\A i \in 1..Len(tasks) : tasks[i].op # "start_session") /\ EndSession(s)
    \/ \E i \in 1..MaxTasks : EndSessionDelete(i, TRUE)
    \/ \E s \in StoreIds, e \in StoreEvents :
          /\ calls < MaxCalls
          /\ Has(session_start_times, s)
          /\ \A i \in 1..Len(tasks) : tasks[i].op # "start_session"
          /\ TrackUsage(s, e[1], e[2], e[3])
    \/ \E i \in 1..MaxTasks : TrackUsageHset(i, TRUE)

SpecHealthy == InitStore /\ [][NextHealthy]_vars

\* requests passing the middleware while sessions run, the breaker is
\* activated and polled and the clock advances
NextMiddleware ==
    \/ \E enabled \in BOOLEAN, scope_type \in ScopeTypes :
          CostProtectionMiddleware(enabled, scope_type)
    \/ \E s \in StoreIds : StartSession(s)
    \/ \E s \in StoreIds, e \in UsageEvents :
          calls < MaxCalls /\ TrackUsage(s, e[1], e[2], e[3])
    \/ ActivateCircuitBreaker
    \/ CheckCircuitBreaker
    \/ \E d \in TickSeconds : Tick(d)

SpecMiddleware == Init /\ [][NextMiddleware]_vars

\* the tracker with a store client and two sessions: each start_session is
\* awaited, the track_usage calls of the two sessions overlap and their store
\* calls return or raise in any order
NextSessions ==
    \/ \E s \in SessionIds : tasks = << >> /\ StartSession(s)
    \/ \E ok \in BOOLEAN : StartSessionHset(1, ok)
    \/ \E ok \in BOOLEAN : StartSessionExpire(1, ok)
    \/ \E s \in SessionIds, e \in StoreEvents :
          /\ calls < MaxCalls
          /\ \A i \in 1..Len(tasks) : tasks[i].op = "track_usage"
          /\ TrackUsage(s, e[1], e[2], e[3])
    \/ \E i \in 1..MaxTasks, ok \in BOOLEAN : TrackUsageHset(i, ok)

SpecSessions == InitStore /\ [][NextSessions]_vars

\* calculate_cost alone: a freshly constructed tracker and one call, its
\* arguments drawn from the models and token counts
InitPricing ==
    /\ session_costs = EmptyDict
    /\ session_tokens = EmptyDict
    /\ session_start_times = EmptyDict
    /\ circuit_breaker_active = FALSE
    /\ circuit_breaker_reset_time = None
    /\ redis_client = FALSE
    /\ redis = EmptyDict
    /\ tasks = << >>
    /\ now = 0
    /\ calls = 0
    /\ \E model \in PricedModels, input_tokens \in TokenCounts, output_tokens \in TokenCounts :
          last = Report("calculate_cost_call", "",
                        Some([model |-> model, input_tokens |-> input_tokens,
                              output_tokens |-> output_tokens]))
    /\ exceeded = {}
    /\ open_sessions = {}
    /\ emitted = << >>
    /\ reported = EmptyDict

NextPricing == CalculateCost

SpecPricing == InitPricing /\ [][NextPricing]_vars

----------------------------------------------------------------------------
(* handle_media_stream, the WebSocket endpoint of main.py and of           *)
(* main_with_rate_limiting.py.  One connection is one coroutine: its entry *)
(* in tasks holds the module it belongs to and where it stands.  The       *)
(* tracker is the one of the default configuration (no store client), so   *)
(* start_session, check_circuit_breaker and end_session run without        *)
(* suspending.  The id is a fresh uuid4.                                   *)

Apps == {"main", "main_with_rate_limiting"}
ConfigOutcomes == {"ok", "missing_config", "index_error", "init_failed"}

HandlerOf(i, session_id) ==
    /\ i \in 1..Len(tasks)
    /\ tasks[i].op = "handle_media_stream"
    /\ tasks[i].sid = session_id

\* the paths by which the handler returns and whether end_session is called
\* on them: main.py calls it at line 224 only; main_with_rate_limiting.py
\* in the two except clauses (lines 235, 245) and in the finally (line 388)
end_session_called(app, path) ==
    IF app = "main"
    THEN path = "breaker_rejection"
    ELSE path \in {"index_error", "init_failed", "run_error", "completed"}

\* the close code sent on each path
close_code(path) ==
    CASE path = "breaker_rejection" -> Some(1013)
      [] path \in {"missing_config", "index_error"} -> Some(1008)
      [] path \in {"init_failed", "run_error"} -> Some(1011)
      [] OTHER -> None

\* main.py lines 207-208: the poll, then the test of the flag
breaker_rejects(app) == app = "main" /\ circuit_breaker_active /\ ~reset_due

\* the connection is accepted: start_session; in main.py the breaker is
\* polled and an active breaker ends the session and the connection
HandleMediaStream(app, session_id) ==
    /\ ~redis_client
    /\ ~Has(session_start_times, session_id)
    /\ \A i \in 1..Len(tasks) : ~HandlerOf(i, session_id)
    /\ IF app = "main" /\ reset_due
       THEN /\ circuit_breaker_active' = FALSE
            /\ circuit_breaker_reset_time' = None
       ELSE UNCHANGED breaker
    /\ IF breaker_rejects(app)
       THEN /\ session_start_times' = Pop(Put(session_start_times, session_id, now),
                                          session_id)
            /\ session_costs' = Pop(Put(session_costs, session_id, 0), session_id)
            /\ session_tokens' = Pop(session_tokens, session_id)
            /\ reported' = Pop(reported, session_id)
            /\ open_sessions' = open_sessions \ {session_id}
            /\ emitted' = <<active_sessions_inc, session_duration_observe(0),
                            active_sessions_dec>>
            /\ tasks' = tasks
            /\ last' = Report("handle_media_stream_return", session_id,
                              Some([app |-> app, path |-> "breaker_rejection",
                                    close_code |-> close_code("breaker_rejection")]))
       ELSE /\ session_start_times' = Put(session_start_times, session_id, now)
            /\ session_costs' = Put(session_costs, session_id, 0)
            /\ session_tokens' = session_tokens
            /\ reported' = Put(reported, session_id, reported_at_start(session_id))
            /\ open_sessions' = open_sessions \cup {session_id}
            /\ emitted' = <<active_sessions_inc>>
            /\ tasks' = Append(tasks, [op |-> "handle_media_stream", pc |-> "configure",
                                       sid |-> session_id, app |-> app])
            /\ last' = Report("handle_media_stream", session_id, None)
    /\ exceeded' = exceeded \ {session_id}
    /\ UNCHANGED <<redis_client, redis, now, calls>>

\* the handler of tasks[i] returns by the path: the messages and the close,
\* then end_session where the path calls it
HandlerReturn(i, path) ==
    LET app == tasks[i].app
        session_id == tasks[i].sid
        ends == end_session_called(app, path) /\ end_session_acts(session_id)
    IN  /\ IF ends
           THEN /\ emitted' = <<session_duration_observe(
                                    now - Get(session_start_times, session_id, now)),
                                active_sessions_dec>>
                /\ session_start_times' = Pop(session_start_times, session_id)
                /\ session_costs' = Pop(session_costs, session_id)
                /\ session_tokens' = Pop(session_tokens, session_id)
                /\ reported' = Pop(reported, session_id)
                /\ open_sessions' = open_sessions \ {session_id}
           ELSE /\ emitted' = << >>
                /\ UNCHANGED <<ledger, reported, open_sessions>>
        /\ exceeded' = IF end_session_called(app, path)
                       THEN exceeded \ {session_id} ELSE exceeded
        /\ tasks' = RemoveAt(tasks, i)
        /\ last' = Report("handle_media_stream_return", session_id,
                          Some([app |-> app, path |-> path,
                                close_code |-> close_code(path)]))
        /\ UNCHANGED <<breaker, redis_client, redis, now, calls>>

\* the configuration is validated and the RealtimeAgent constructed
HandlerConfigure(i, outcome) ==
    /\ i \in 1..Len(tasks)
    /\ tasks[i].op = "handle_media_stream" /\ tasks[i].pc = "configure"
    /\ IF outcome = "ok"
       THEN /\ tasks' = [tasks EXCEPT ![i].pc = "run"]
            /\ last' = Report("handle_media_stream_configured", tasks[i].sid, None)
            /\ emitted' = << >>
            /\ UNCHANGED <<ledger, breaker, redis_client, redis, now, calls, exceeded,
                           open_sessions, reported>>
       ELSE HandlerReturn(i, outcome)

\* realtime_agent.run() returns (ok) or raises
HandlerRun(i, ok) ==
    /\ i \in 1..Len(tasks)
    /\ tasks[i].op = "handle_media_stream" /\ tasks[i].pc = "run"
    /\ HandlerReturn(i, IF ok THEN "completed" ELSE "run_error")

\* a tool of main_with_rate_limiting.py reports usage while the agent runs
HandlerTrackUsage(i, model, input_tokens, output_tokens) ==
    /\ i \in 1..Len(tasks)
    /\ tasks[i].op = "handle_media_stream" /\ tasks[i].pc = "run"
    /\ tasks[i].app = "main_with_rate_limiting"
    /\ calls < MaxCalls
    /\ TrackUsage(tasks[i].sid, model, input_tokens, output_tokens)

NextHandlers ==
    \/ \E app \in Apps, s \in SessionIds : HandleMediaStream(app, s)
    \/ \E i \in 1..MaxTasks, outcome \in ConfigOutcomes : HandlerConfigure(i, outcome)
    \/ \E i \in 1..MaxTasks, ok \in BOOLEAN : HandlerRun(i, ok)
    \/ \E i \in 1..MaxTasks, e \in UsageEvents :
          HandlerTrackUsage(i, e[1], e[2], e[3])
    \/ ActivateCircuitBreaker
    \/ \E d \in TickSeconds : Tick(d)

SpecHandlers == Init /\ [][NextHandlers]_vars

----------------------------------------------------------------------------
(* track_openai_call: the decorator of cost_tracking_wrapper.py around a   *)
(* synchronous function.  wrapper drives the tracker's coroutines to their *)
(* end with loop.run_until_complete, so one invocation is one step; the    *)
(* tracker is the one of the default configuration.  The record of the     *)
(* step holds how often the wrapped function ran, whether a result of it   *)
(* came back, the dict track_usage returned and the calls made on the      *)
(* WebSocket, in order.                                                    *)

\* line 18: the default of the decorator's argument
budget_threshold_warning == 4 * MICRO

\* what the wrapped function's result carries as usage: nothing, or the
\* (prompt_tokens, completion_tokens) of these events
WrapperEvents == StoreEvents \cup { <<"gpt-5", -20000, 0>> }

\* lines 67-72 and 80-87: the calls on the WebSocket
send_json(type, ok) ==
    [call |-> "send_json", type |-> Some(type), code |-> None, raised |-> ~ok]
close(code, ok) ==
    [call |-> "close", type |-> None, code |-> Some(code), raised |-> ~ok]

\* lines 62-92: what the wrapper does on the WebSocket with the dict that
\* track_usage returned.  The warning send has a try of its own; the
\* budget_exceeded send and the close share one, so a send that raises
\* leaves the close out.
websocket_calls(usage_result, send_ok, close_ok) ==
    (IF usage_result.session_cost >= budget_threshold_warning /\ usage_result.budget_ok
     THEN <<send_json("budget_warning", send_ok)>>
     ELSE << >>)
    \o
    (IF ~usage_result.budget_ok
     THEN <<send_json("budget_exceeded", send_ok)>>
          \o (IF send_ok THEN <<close(1008, close_ok)>> ELSE << >>)
     ELSE << >>)

\* the wrapper's outcome
Outcome(fault, executions, returned, usage_result, websocket) ==
    [fault |-> fault, executions |-> executions, returned |-> returned,
     usage_result |-> usage_result, websocket |-> websocket]

\* what can go wrong in one invocation: the wrapped function raises; its
\* result carries no usage; run_until_complete cannot drive the loop (it
\* raises RuntimeError when the loop is already running); a send_json on the
\* WebSocket raises; the close raises
Faults == {"none", "func_raises", "no_usage", "loop_running", "send_raises",
           "close_raises"}

\* One invocation of wrapper.  Anything raised inside the outer try (lines
\* 35-93) is caught at line 94 and answered by calling the function again
\* (line 97).
TrackOpenaiCall(session_id, model, input_tokens, output_tokens, fault) ==
    LET func_ok == fault # "func_raises"
        has_usage == fault # "no_usage"
        loop_ok == fault # "loop_running"
        send_ok == fault # "send_raises"
        close_ok == fault # "close_raises"
        tracks == func_ok /\ has_usage /\ loop_ok
    IN
    /\ ~redis_client
    /\ tracks => calls < MaxLedgerCalls
    /\ UNCHANGED <<breaker, redis_client, redis, tasks, now, open_sessions>>
    /\ \E cost \in {calculate_cost(model, input_tokens, output_tokens)} :
       \E new_cost \in {new_cost_of(session_id, cost)} :
         IF ~tracks
         THEN /\ last' = Report("track_openai_call", session_id,
                                Some(IF func_ok /\ ~has_usage
                                     THEN Outcome(fault, 1, TRUE, None, << >>)
                                     ELSE Outcome(fault, 2, func_ok, None, << >>)))
              /\ emitted' = << >>
              /\ UNCHANGED <<ledger, calls, reported, exceeded>>
         ELSE /\ session_costs' = updated_costs(session_id, new_cost)
              /\ session_tokens' = updated_tokens(session_id, input_tokens, output_tokens)
              /\ UNCHANGED session_start_times
              /\ calls' = calls + 1
              /\ reported' = reported_after(session_id, cost, input_tokens, output_tokens)
              /\ IF usage_metrics_raise(input_tokens, output_tokens, cost)
                 THEN /\ last' = Report("track_openai_call", session_id,
                                        Some(Outcome(fault, 2, TRUE, None, << >>)))
                      /\ emitted' = usage_metrics(session_id, model, input_tokens,
                                                  output_tokens, cost)
                      /\ UNCHANGED exceeded
                 ELSE LET usage_result == UsageResult(session_id, model, input_tokens,
                                                      output_tokens, cost, new_cost)'
                      IN  /\ last' = Report("track_openai_call", session_id,
                                       Some(Outcome(fault, 1, TRUE, Some(usage_result),
                                                    websocket_calls(usage_result,
                                                                    send_ok, close_ok))))
                          /\ emitted' = usage_metrics(session_id, model, input_tokens,
                                                      output_tokens, cost)
                                         \o budget_metrics(session_id, usage_result)
                          /\ exceeded' = Exceeded(exceeded, usage_result)

NextWrapper ==
    \/ \E s \in StoreIds : StartSession(s)
    \/ \E s \in StoreIds, e \in WrapperEvents, fault \in Faults :
          TrackOpenaiCall(s, e[1], e[2], e[3], fault)
    \/ ActivateCircuitBreaker
    \/ \E d \in TickSeconds : Tick(d)

SpecWrapper == Init /\ [][NextWrapper]_vars

----------------------------------------------------------------------------
(* Vocabulary of the properties *)

TrackReturnOps == {"track_usage", "track_usage_return"}
TrackCallOps == {"track_usage", "track_usage_call"}
VerdictOps == TrackReturnOps \cup {"check_budget"}
SessionOps == {"start_session", "start_session_hset", "start_session_expire",
               "end_session", "end_session_delete",
               "track_usage", "track_usage_call", "track_usage_return"}

HasVerdict == last.op \in VerdictOps
Verdict == last.result[1]
Contains(seq, x) == \E i \in 1..Len(seq) : seq[i] = x

BreakerWarning == "System-wide circuit breaker is active"

\* ids a caller may ask about: the tracked ones and one never seen before
AnyIds == SessionIds \cup {"brand-new"}

CostOf(s) == Get(session_costs, s, 0)
InputOf(s) == Get(session_tokens, s, [input |-> 0, output |-> 0]).input
OutputOf(s) == Get(session_tokens, s, [input |-> 0, output |-> 0]).output

\* everything the ledger holds for one id
Entry(s) ==
    [ cost |-> IF Has(session_costs, s) THEN Some(session_costs[s]) ELSE None,
      tokens |-> IF Has(session_tokens, s) THEN Some(session_tokens[s]) ELSE None,
      start_time |-> IF Has(session_start_times, s)
                     THEN Some(session_start_times[s]) ELSE None ]

HasEntry(s) ==
    Has(session_costs, s) \/ Has(session_tokens, s) \/ Has(session_start_times, s)

\* the session's own budget and duration predicates hold for cost c
WithinLimits(s, c) ==
    /\ c < max_session_cost_usd
    /\ Has(session_start_times, s) =>
          now - session_start_times[s] < max_session_duration_minutes * 60

----------------------------------------------------------------------------
\* C1: once a track_usage call has returned budget_ok = false with the
\* session's cumulative cost at or over max_session_cost_usd, every later
\* track_usage call of that session returns budget_ok = false.
C1_BudgetStaysExceeded ==
    ( /\ last.op \in TrackReturnOps
      /\ last.sid \in exceeded
      /\ last.sid \in open_sessions )
    => ~Verdict.budget_ok

\* C2: while the breaker is active every verdict, for every session id and
\* whatever its cost and duration, has budget_ok = false,
\* circuit_breaker_active = true and carries the breaker warning.
C2_BreakerBlocksEveryVerdict ==
    circuit_breaker_active =>
        /\ HasVerdict =>
              /\ ~Verdict.budget_ok
              /\ Verdict.circuit_breaker_active
              /\ Contains(Verdict.warnings, BreakerWarning)
        /\ \A s \in AnyIds : \A c \in CostChoices \cup {CostOf(s)} :
              /\ ~check_budget(s, c).budget_ok
              /\ check_budget(s, c).circuit_breaker_active
              /\ Contains(check_budget(s, c).warnings, BreakerWarning)

\* a session with budget to spare gets a negative verdict from track_usage
\* because the breaker is active
C2_Witness ==
    /\ circuit_breaker_active
    /\ last.op = "track_usage"
    /\ Verdict.session_cost < max_session_cost_usd
    /\ ~Verdict.budget_ok
    /\ Verdict.warnings = <<BreakerWarning>>

\* C3: a check_circuit_breaker call made while the breaker is active and
\* now >= circuit_breaker_reset_time leaves circuit_breaker_active false and
\* circuit_breaker_reset_time None, and check_budget then passes every session
\* whose cost and elapsed time are under their caps.
C3_PollAfterCooldownResets ==
    [][ ( /\ last'.op = "check_circuit_breaker"
          /\ circuit_breaker_active
          /\ circuit_breaker_reset_time # None
          /\ now >= circuit_breaker_reset_time[1] )
        => ( /\ ~circuit_breaker_active'
             /\ circuit_breaker_reset_time' = None
             /\ \A s \in AnyIds : \A c \in CostChoices \cup {CostOf(s)} :
                   WithinLimits(s, c)' =>
                      /\ check_budget(s, c)'.budget_ok
                      /\ ~check_budget(s, c)'.circuit_breaker_active ) ]_vars

\* the poll has reset the breaker and a started session is admitted again
C3_Witness ==
    /\ last.op = "check_circuit_breaker"
    /\ last.result = Some("Circuit breaker reset")
    /\ ~circuit_breaker_active
    /\ \E s \in DOMAIN session_start_times :
          WithinLimits(s, CostOf(s)) /\ check_budget(s, CostOf(s)).budget_ok

\* C4: a verdict computed at a time now >= circuit_breaker_reset_time reports
\* circuit_breaker_active = false (the admission check itself polls the reset).
C4_VerdictPollsReset ==
    ( /\ HasVerdict
      /\ circuit_breaker_reset_time # None
      /\ now >= circuit_breaker_reset_time[1] )
    => ~Verdict.circuit_breaker_active

\* C5: whenever the sum of all sessions' cumulative costs has reached
\* circuit_breaker_threshold_usd the breaker is active.
C5_ThresholdTripsBreaker ==
    (last.op \in TrackReturnOps /\ TotalCost >= circuit_breaker_threshold_usd)
    => circuit_breaker_active

\* C6: an id has a ledger entry (a key in session_costs, session_tokens or
\* session_start_times) exactly when start_session was called for it and
\* end_session has not completed since.
C6_EntryIffOpen ==
    \A s \in SessionIds : HasEntry(s) <=> s \in open_sessions

\* C7: a track_usage call for an id without ledger entry is priced but
\* changes neither the ledger maps nor the store.
C7_UnknownTrackLeavesNoTrace ==
    [][ \A s \in SessionIds :
          (last'.op \in TrackCallOps /\ last'.sid = s /\ ~HasEntry(s))
          => ( /\ ledger' = ledger
               /\ redis' = redis
               /\ last'.op = "track_usage" =>
                     \E e \in LedgerEvents :
                        last'.result[1].call_cost = calculate_cost(e[1], e[2], e[3]) )
      ]_vars

\* C8: between start_session and the completion of end_session a session's
\* cumulative cost is >= 0 and never decreases, and neither token counter
\* decreases.
C8_CostAndTokensMonotone ==
    [][ \A s \in SessionIds :
          (s \in open_sessions /\ s \in open_sessions')
          => ( /\ CostOf(s)' >= 0
               /\ CostOf(s)' >= CostOf(s)
               /\ InputOf(s)' >= InputOf(s)
               /\ OutputOf(s)' >= OutputOf(s) ) ]_vars

\* C9: a track_usage call reporting a negative input or output token count is
\* a zero-cost event: call_cost is 0 and the cumulative cost is not reduced.
C9_NegativeTokensCostNothing ==
    [][ \A s \in SessionIds :
          ( /\ last'.op \in {"track_usage", "track_usage_raised"}
            /\ last'.sid = s
            /\ \/ last'.result[1].input_tokens < 0
               \/ last'.result[1].output_tokens < 0 )
          => ( /\ last'.op = "track_usage"
               /\ last'.result[1].call_cost = 0
               /\ CostOf(s)' >= CostOf(s) ) ]_vars

\* C10: a start_session, track_usage or end_session step on one id leaves
\* every other id's ledger entry unchanged and, the breaker being unchanged,
\* leaves every verdict about the other id unchanged.
C10_SessionIsolation ==
    [][ last'.op \in SessionOps =>
          \A b \in SessionIds \ {last'.sid} :
             /\ Entry(b)' = Entry(b)
             /\ breaker' = breaker =>
                   /\ \A c \in CostChoices :
                         check_budget(b, c)' = check_budget(b, c)
                   /\ check_budget(b, CostOf(b))' = check_budget(b, CostOf(b))
      ]_vars

\* track_usage has just run on s1 while s2 holds a different, non-zero cost
C10_Witness ==
    /\ last.op = "track_usage"
    /\ last.sid = "s1"
    /\ Has(session_costs, "s2") /\ Has(session_start_times, "s2")
    /\ session_costs["s2"] > 0
    /\ Verdict.session_cost # session_costs["s2"]
    /\ Verdict.budget_ok # check_budget("s2", session_costs["s2"]).budget_ok

\* C11: no update is lost when track_usage calls of one started session
\* overlap at the store write: at every moment, and so after all of them have
\* completed, the session's cumulative cost is its cost at the start plus the
\* sum of the call costs reported since, and each token counter is its value
\* at the start plus the sum of the reported counts.
C11_NoLostUpdates ==
    \A s \in DOMAIN session_start_times :
        /\ Has(reported, s)
        /\ CostOf(s) = reported[s].cost
        /\ InputOf(s) = reported[s].input
        /\ OutputOf(s) = reported[s].output

\* two calls of s1 overlapped and both have returned: the one returning last
\* was invoked first, its session_cost is below the cost the ledger now holds
C11_Witness ==
    /\ last.op = "track_usage_return"
    /\ last.sid = "s1"
    /\ Has(session_start_times, "s1")
    /\ tasks = << >>
    /\ Verdict.session_cost < CostOf("s1")
    /\ CostOf("s1") = reported["s1"].cost

\* C12: usage events of one session are applied in invocation order: the
\* session_cost a track_usage call returns is the sum of the call costs of
\* the calls invoked since start_session up to and including itself, whether
\* or not earlier calls are still suspended on the store.
C12_AppliedInInvocationOrder ==
    [][ /\ (last'.op = "track_usage" /\ Has(reported, last'.sid))
           => last'.result[1].session_cost = reported'[last'.sid].cost
        /\ \A i \in 1..Len(tasks) :
              ( /\ last'.op = "track_usage_return"
                /\ tasks' = RemoveAt(tasks, i)
                /\ tasks[i].op = "track_usage"
                /\ tasks[i].sid = last'.sid
                /\ tasks[i].reported_cost # None )
              => last'.result[1].session_cost = tasks[i].reported_cost[1]
      ]_vars

\* a call returns while the call invoked just before it is still suspended
C12_Witness ==
    /\ last.op = "track_usage_return"
    /\ \E i \in 1..Len(tasks) :
          /\ tasks[i].op = "track_usage"
          /\ tasks[i].sid = last.sid
          /\ tasks[i].reported_cost # None
          /\ Verdict.session_cost = tasks[i].reported_cost[1] + Verdict.call_cost

\* C13: failures of the store are invisible to a caller that awaits each
\* call: whether a store call succeeds or raises, no call raises, the steps
\* after a store call leave the ledger and the breaker as the call found them,
\* and track_usage returns the result the tracker without store client
\* returns from the same ledger.
C13_StoreFailuresInvisible ==
    [][ /\ last'.op \in {"start_session_hset", "start_session_expire",
                         "end_session_delete", "track_usage_return"}
           => (ledger' = ledger /\ breaker' = breaker)
        /\ last'.op = "track_usage_return"
           => (Len(tasks) = 1 /\ last'.result = Some(tasks[1].plain_result))
        /\ last'.op # "track_usage_raised"
      ]_vars

\* the store write of a track_usage call has raised, nothing was mirrored,
\* and the call has returned a negative verdict for a timed-out session
C13_Witness ==
    /\ last.op = "track_usage_return"
    /\ ~Has(redis, last.sid)
    /\ Has(session_start_times, last.sid)
    /\ ~Verdict.budget_ok
    /\ Verdict.session_cost < max_session_cost_usd
    /\ Verdict.session_cost = CostOf(last.sid)

\* a track_usage call suspended on the store
TrackSuspended(i) ==
    i \in 1..Len(tasks) /\ tasks[i].op = "track_usage"

\* the result of a call reporting (model, input_tokens, output_tokens) that
\* found the cumulative cost `before` in the ledger
PricedAndJudged(result, before) ==
    /\ result.call_cost = calculate_cost(result.model, result.input_tokens,
                                         result.output_tokens)
    /\ result.session_cost = before + result.call_cost
    /\ result.budget_ok \in BOOLEAN
    /\ result.budget_ok => result.session_cost < max_session_cost_usd
    /\ result.remaining_budget_usd = Max0(max_session_cost_usd - result.session_cost)

\* C14: track_usage is total.  Whether the id is started, never started, ended
\* or ended while the call was suspended, whatever the model string and
\* whether the store write succeeds or raises: no call raises, a suspended
\* call can always resume, and the result it returns carries the price of
\* the reported event, the cumulative cost including it and a verdict on
\* that cost.
C14_TrackUsageTotal ==
    /\ [](\A i \in 1..MaxTasks :
             TrackSuspended(i) => \A ok \in BOOLEAN : ENABLED TrackUsageHset(i, ok))
    /\ [][ /\ last'.op # "track_usage_raised"
           /\ last'.op = "track_usage"
              => PricedAndJudged(last'.result[1], CostOf(last'.sid))
           /\ \A i \in 1..Len(tasks) :
                 ( /\ last'.op = "track_usage_return"
                   /\ tasks' = RemoveAt(tasks, i)
                   /\ tasks[i].op = "track_usage"
                   /\ tasks[i].sid = last'.sid )
                 => PricedAndJudged(last'.result[1], tasks[i].new_cost - tasks[i].cost)
         ]_vars

\* the step just taken completed an end_session call: the call returned
\* without touching the store, or its store delete has returned
EndSessionCompleted ==
    \/ /\ last.op = "end_session"
       /\ \A i \in 1..Len(tasks) :
             ~(tasks[i].op = "end_session" /\ tasks[i].sid = last.sid)
    \/ last.op = "end_session_delete"

\* C15: when end_session(id) has completed, id is in none of session_costs,
\* session_tokens and session_start_times and the store holds no key
\* session:{id}, however the state of that id came about.
C15_EndSessionRemovesEverything ==
    EndSessionCompleted => (~HasEntry(last.sid) /\ ~Has(redis, last.sid))

\* C16: end_session is idempotent.  A call for an id that was never started,
\* or whose end_session has completed, changes nothing: no ledger map, no
\* breaker field, no metric (gauge, duration histogram), and it sends no
\* delete to the store.
C16_EndSessionIdempotent ==
    [][ (last'.op = "end_session" /\ last'.sid \notin open_sessions)
        => ( /\ ledger' = ledger
             /\ breaker' = breaker
             /\ emitted' = << >>
             /\ tasks' = tasks
             /\ redis' = redis ) ]_vars

\* end_session has been called again for an id whose session, with usage
\* tracked in it, was already ended and removed
C16_Witness ==
    /\ last.op = "end_session"
    /\ last.sid \notin open_sessions
    /\ calls > 0
    /\ ~HasEntry(last.sid)
    /\ emitted = << >>
    /\ tasks = << >>

\* the three predicates of the admission logic, and the costs a verdict is asked for
BudgetWarning == "Session budget limit exceeded"
DurationWarning == "Session duration limit exceeded"
MaxDurationSeconds == max_session_duration_minutes * 60
Known(s) == Has(session_start_times, s)
Elapsed(s) == now - session_start_times[s]
BudgetHolds(c) == c < max_session_cost_usd
DurationHolds(s) == Known(s) => Elapsed(s) < MaxDurationSeconds
BreakerHolds == ~circuit_breaker_active
CostsAsked(s) == CostChoices \cup {CostOf(s)}
Failing(b, d, k) ==
    (IF b THEN 0 ELSE 1) + (IF d THEN 0 ELSE 1) + (IF k THEN 0 ELSE 1)

\* C17: budget_ok is the AND of the budget, duration and breaker predicates,
\* and the warnings hold exactly one message per failing predicate and none
\* for a passing one, so the list is empty exactly when budget_ok is true.
C17_VerdictIsConjunction ==
    /\ \A s \in AnyIds : \A c \in CostsAsked(s) :
          /\ check_budget(s, c).budget_ok
                = (BudgetHolds(c) /\ DurationHolds(s) /\ BreakerHolds)
          /\ Contains(check_budget(s, c).warnings, BudgetWarning) = ~BudgetHolds(c)
          /\ Contains(check_budget(s, c).warnings, DurationWarning) = ~DurationHolds(s)
          /\ Contains(check_budget(s, c).warnings, BreakerWarning) = ~BreakerHolds
          /\ Len(check_budget(s, c).warnings)
                = Failing(BudgetHolds(c), DurationHolds(s), BreakerHolds)
          /\ (check_budget(s, c).warnings = << >>) = check_budget(s, c).budget_ok
    /\ HasVerdict => ((Verdict.warnings = << >>) = Verdict.budget_ok)

\* a verdict in which all three predicates fail carries all three messages
C17_Witness ==
    /\ last.op = "track_usage"
    /\ ~Verdict.budget_ok
    /\ Verdict.warnings = <<BudgetWarning, DurationWarning, BreakerWarning>>

\* C18: the boundary values fail.  A cost exactly equal to
\* max_session_cost_usd gives budget_ok = false with the budget message, and
\* a session whose elapsed time is exactly the maximum duration gives
\* budget_ok = false with the duration message.
C18_BoundaryValuesFail ==
    /\ \A s \in AnyIds :
          /\ ~check_budget(s, max_session_cost_usd).budget_ok
          /\ Contains(check_budget(s, max_session_cost_usd).warnings, BudgetWarning)
    /\ \A s \in DOMAIN session_start_times : \A c \in CostsAsked(s) :
          Elapsed(s) = MaxDurationSeconds
          => /\ ~check_budget(s, c).budget_ok
             /\ Contains(check_budget(s, c).warnings, DurationWarning)

\* a call has brought a session to exactly the cost cap at exactly the
\* maximum duration, the breaker being inactive: both messages, nothing else
C18_Witness ==
    /\ last.op = "track_usage"
    /\ Known(last.sid)
    /\ Elapsed(last.sid) = MaxDurationSeconds
    /\ Verdict.session_cost = max_session_cost_usd
    /\ ~circuit_breaker_active
    /\ ~Verdict.budget_ok
    /\ Verdict.warnings = <<BudgetWarning, DurationWarning>>

\* C19: the remaining budget is max(0, max_session_cost_usd - current_cost),
\* the remaining duration of a started session is max(0, max duration -
\* elapsed); neither is negative, and the remaining budget is 0 whenever the
\* budget predicate fails.
C19_RemainingAmounts ==
    \A s \in AnyIds : \A c \in CostsAsked(s) :
        /\ check_budget(s, c).remaining_budget_usd
              = (IF c >= max_session_cost_usd THEN 0 ELSE max_session_cost_usd - c)
        /\ Known(s) =>
              check_budget(s, c).remaining_duration_seconds
                = (IF Elapsed(s) >= MaxDurationSeconds THEN 0
                   ELSE MaxDurationSeconds - Elapsed(s))
        /\ check_budget(s, c).remaining_budget_usd >= 0
        /\ check_budget(s, c).remaining_duration_seconds >= 0
        /\ ~BudgetHolds(c) => check_budget(s, c).remaining_budget_usd = 0

\* a session over its cost cap and past its maximum duration is told that
\* nothing remains of either
C19_Witness ==
    /\ last.op = "track_usage"
    /\ Known(last.sid)
    /\ Verdict.session_cost > max_session_cost_usd
    /\ Elapsed(last.sid) > MaxDurationSeconds
    /\ Verdict.remaining_budget_usd = 0
    /\ Verdict.remaining_duration_seconds = 0

\* C20: for an id without recorded start time the duration predicate passes
\* and remaining_duration_seconds is the full maximum duration: the verdict
\* depends on the cost passed in and on the breaker only.
C20_UnknownSessionNotTimed ==
    \A s \in AnyIds : \A c \in CostsAsked(s) :
        ~Known(s)
        => /\ check_budget(s, c).remaining_duration_seconds = MaxDurationSeconds
           /\ ~Contains(check_budget(s, c).warnings, DurationWarning)
           /\ check_budget(s, c).budget_ok = (BudgetHolds(c) /\ BreakerHolds)

\* long after the tracker was constructed, with another session timed out, a
\* never-started id asked about with cost 0 is admitted with the full duration
C20_Witness ==
    /\ last.op = "check_budget"
    /\ ~Known(last.sid)
    /\ now >= MaxDurationSeconds
    /\ \E s \in DOMAIN session_start_times : ~DurationHolds(s)
    /\ Verdict.budget_ok
    /\ Verdict.remaining_duration_seconds = MaxDurationSeconds

----------------------------------------------------------------------------
\* C21: in every reachable state, whatever the interleaving of the breaker's
\* two operations with the session operations, an inactive breaker has
\* circuit_breaker_reset_time None and an active breaker has a reset time; no
\* state shows one field without the other.
C21_BreakerFieldsPaired ==
    /\ ~circuit_breaker_active => circuit_breaker_reset_time = None
    /\ circuit_breaker_active => circuit_breaker_reset_time # None

\* the breaker was activated and reset again while sessions were tracked
C21_Witness ==
    /\ last.op = "check_circuit_breaker"
    /\ last.result = Some("Circuit breaker reset")
    /\ circuit_breaker_reset_time = None
    /\ \E s \in DOMAIN session_costs : session_costs[s] > 0

\* C22: the breaker goes from active to inactive only in a
\* check_circuit_breaker step taken at now >= circuit_breaker_reset_time; a
\* poll at now < circuit_breaker_reset_time leaves both fields as they were,
\* and so does the passage of time.
C22_ResetOnlyByDuePoll ==
    [][ /\ (circuit_breaker_active /\ ~circuit_breaker_active') =>
              /\ last'.op = "check_circuit_breaker"
              /\ circuit_breaker_reset_time # None
              /\ now >= circuit_breaker_reset_time[1]
        /\ ( /\ last'.op = "check_circuit_breaker"
             /\ circuit_breaker_active
             /\ circuit_breaker_reset_time # None
             /\ now < circuit_breaker_reset_time[1] ) => UNCHANGED breaker
        /\ last'.op = "tick" => UNCHANGED breaker ]_vars

\* half of the cooldown has passed and a poll has left the breaker active
C22_Witness ==
    /\ last.op = "check_circuit_breaker"
    /\ last.result = None
    /\ circuit_breaker_active
    /\ circuit_breaker_reset_time = Some(circuit_breaker_reset_minutes * 60)
    /\ now > 0
    /\ now < circuit_breaker_reset_time[1]

\* C23: start_session, track_usage, check_budget, check_budget_before_call
\* and end_session leave circuit_breaker_active and
\* circuit_breaker_reset_time unchanged, and check_budget leaves the three
\* ledger maps unchanged as well.
C23_SessionOperationsLeaveBreaker ==
    [][ /\ last'.op \in SessionOps \cup {"track_usage_raised", "check_budget",
                                         "check_budget_before_call"}
              => UNCHANGED breaker
        /\ last'.op = "check_budget" => UNCHANGED ledger ]_vars

\* check_budget has run after the cooldown elapsed and the breaker is still
\* active
C23_Witness ==
    /\ last.op = "check_budget"
    /\ circuit_breaker_active
    /\ circuit_breaker_reset_time # None
    /\ now >= circuit_breaker_reset_time[1]
    /\ session_costs # EmptyDict

\* C24: every activate_circuit_breaker call, whether or not the breaker was
\* active already, leaves the breaker active with circuit_breaker_reset_time
\* equal to the time of that call plus one cooldown, so the reset time never
\* lies more than one cooldown ahead and the breaker is not due for reset
\* before that cooldown has elapsed.
C24_ReactivationLastWriterWins ==
    /\ [][ last'.op = "activate_circuit_breaker" =>
              /\ circuit_breaker_active'
              /\ circuit_breaker_reset_time'
                    = Some(now' + circuit_breaker_reset_minutes * 60)
              /\ ~reset_due' ]_vars
    /\ [](circuit_breaker_reset_time # None =>
              circuit_breaker_reset_time[1] <= now + circuit_breaker_reset_minutes * 60)

\* an active breaker was activated again at a later time: the reset time it
\* had is replaced by the later one
C24_Witness ==
    /\ last.op = "activate_circuit_breaker"
    /\ last.result # None
    /\ last.result[1] < circuit_breaker_reset_time[1]
    /\ circuit_breaker_reset_time = Some(now + circuit_breaker_reset_minutes * 60)

----------------------------------------------------------------------------
(* calculate_cost *)

Priced == last.op = "calculate_cost"
Call == last.result[1]

\* the float a decimal literal with one digit after the point denotes
Literal(tenths) == float_truediv(tenths, 10)

\* the claimed expression for the call just made, at the given rates
CostAt(input_rate, output_rate) ==
    float_add(float_mul(float_truediv(Call.input_tokens, MICRO), input_rate),
              float_mul(float_truediv(Call.output_tokens, MICRO), output_rate))

\* C25: calculate_cost(model, in, out) is in / 1e6 * input rate + out / 1e6 *
\* output rate, evaluated as Python evaluates it, with the rates of the model
\* for gpt-5, gpt-5-mini and gpt-realtime and with the gpt-5-mini rates for
\* every other model string; the result depends on the arguments only.
C25_CostFormulaAndFallback ==
    Priced =>
        /\ Call.model = "gpt-5" =>
              Call.total_cost = CostAt(gpt5_input_cost_per_1m, gpt5_output_cost_per_1m)
        /\ Call.model = "gpt-5-mini" =>
              Call.total_cost = CostAt(gpt5_mini_input_cost_per_1m, gpt5_mini_output_cost_per_1m)
        /\ Call.model = "gpt-realtime" =>
              Call.total_cost = CostAt(gpt_realtime_input_cost_per_1m,
                                       gpt_realtime_output_cost_per_1m)
        /\ Call.model \notin {"gpt-5", "gpt-5-mini", "gpt-realtime"} =>
              Call.total_cost = CostAt(gpt5_mini_input_cost_per_1m, gpt5_mini_output_cost_per_1m)
        /\ Call.total_cost = total_cost(Call.model, Call.input_tokens, Call.output_tokens)

\* 100k input and 100k output tokens of an unknown model cost 1.8
C25_Witness ==
    /\ Priced
    /\ Call.model = "unknown-model"
    /\ Call.input_tokens = 100000
    /\ Call.output_tokens = 100000
    /\ Call.total_cost = Literal(18)

\* C26: for a fixed model and non-negative token counts, the cost of
\* a_in + b_in input and a_out + b_out output tokens equals the sum of the
\* costs of (a_in, a_out) and (b_in, b_out): usage split over two calls adds
\* up to the cost of the one combined call.
C26_CostAdditive ==
    Priced =>
        \A a_in \in TokenCounts, a_out \in TokenCounts :
            (a_in <= Call.input_tokens /\ a_out <= Call.output_tokens) =>
                Call.total_cost
                    = float_add(total_cost(Call.model, a_in, a_out),
                                total_cost(Call.model, Call.input_tokens - a_in,
                                           Call.output_tokens - a_out))

----------------------------------------------------------------------------
(* The mirror in the external store *)

\* a start_session call for the id is suspended on one of its store calls
StartSuspended(s) ==
    \E i \in 1..Len(tasks) : tasks[i].op = "start_session" /\ tasks[i].sid = s

TimeToLive == max_session_duration_minutes * 60 + ttl_buffer_seconds

\* C27: every key session:{id} in the store has an expiry, at most
\* max_session_duration + 300 s ahead, once no start_session call for the id
\* is between its hset and its expire -- whatever start_session, track_usage
\* and end_session calls were made, for started, unknown and ended ids, and
\* whichever store calls failed.
C27_MirroredKeysExpire ==
    \A s \in DOMAIN redis :
        ~StartSuspended(s) =>
            /\ redis[s].expire_at # None
            /\ redis[s].expire_at[1] <= now + TimeToLive

\* no call for the id is suspended on the store
Settled(s) == \A i \in 1..Len(tasks) : tasks[i].sid # s

\* C28: with a store that answers every call, when no call for a started
\* session is in flight the hash session:{id} holds the cost, input_tokens
\* and output_tokens that the local ledger holds for the session, in whatever
\* order the store writes of the track_usage calls took effect.
C28_MirrorEqualsLedger ==
    \A s \in StoreIds :
        (Known(s) /\ Settled(s)) =>
            /\ Has(redis, s)
            /\ redis[s].cost = Some(CostOf(s))
            /\ redis[s].input_tokens = Some(InputOf(s))
            /\ redis[s].output_tokens = Some(OutputOf(s))

\* C29: with a store that answers every call, when end_session(id) and the
\* track_usage(id) calls that were in flight when it ran have all completed,
\* the store holds no key session:{id}.
C29_NoKeyAfterEnd ==
    \A s \in StoreIds :
        (~Known(s) /\ Settled(s)) => ~Has(redis, s)

----------------------------------------------------------------------------
(* The middleware *)

Request == last.result[1]

\* C30: with cost protection enabled, an HTTP request that arrives while the
\* breaker is active and now < circuit_breaker_reset_time is answered with
\* status 503 and does not reach the downstream app, the breaker staying as
\* it is; an HTTP request that arrives at now >= circuit_breaker_reset_time
\* resets the breaker through the middleware's own poll and is forwarded to
\* the app.
C30_MiddlewareRejectsWhileActive ==
    [][ ( /\ last'.op = "middleware"
          /\ Request'.enabled
          /\ Request'.scope_type = "http"
          /\ circuit_breaker_active
          /\ circuit_breaker_reset_time # None ) =>
            IF now < circuit_breaker_reset_time[1]
            THEN /\ Request'.status_code = Some(503)
                 /\ ~Request'.app_called
                 /\ UNCHANGED breaker
            ELSE /\ ~circuit_breaker_active'
                 /\ circuit_breaker_reset_time' = None
                 /\ Request'.status_code = None
                 /\ Request'.app_called ]_vars

\* half of the cooldown has passed and an HTTP request was answered with 503
C30_Witness ==
    /\ last.op = "middleware"
    /\ Request.scope_type = "http"
    /\ Request.status_code = Some(503)
    /\ ~Request.app_called
    /\ circuit_breaker_active
    /\ now > 0
    /\ now < circuit_breaker_reset_time[1]

\* C38: with cost protection disabled the middleware forwards every request
\* to the app and neither polls nor changes the breaker, a due reset
\* included; with cost protection enabled a request of a non-HTTP scope is
\* forwarded to the app whatever the breaker's state, after the poll has run
\* (a due reset has been made, anything else left as it was).
C38_DisabledOrNonHttpForwarded ==
    [][ last'.op = "middleware" =>
          /\ ~Request'.enabled =>
                /\ Request'.app_called
                /\ Request'.status_code = None
                /\ UNCHANGED breaker
          /\ Request'.enabled /\ Request'.scope_type # "http" =>
                /\ Request'.app_called
                /\ Request'.status_code = None
                /\ IF reset_due
                   THEN ~circuit_breaker_active' /\ circuit_breaker_reset_time' = None
                   ELSE UNCHANGED breaker ]_vars

\* half of the cooldown has passed and a websocket connection went through
\* the enabled middleware to the app
C38_Witness ==
    /\ last.op = "middleware"
    /\ Request.enabled
    /\ Request.scope_type = "websocket"
    /\ Request.app_called
    /\ circuit_breaker_active
    /\ now > 0
    /\ now < circuit_breaker_reset_time[1]

----------------------------------------------------------------------------
(* Calls of different sessions *)

TrackTaskOf(i, s) ==
    i \in 1..Len(tasks) /\ tasks[i].op = "track_usage" /\ tasks[i].sid = s

\* C31: while a track_usage call of session A is suspended on the store, a
\* track_usage call of another session B can be made -- it updates B's ledger
\* entry and is suspended on its own store call -- and B's call can resume
\* and return its verdict with A's call still suspended.
C31_OtherSessionsNotBlocked ==
    /\ [](\A a \in SessionIds : \A b \in SessionIds \ {a} :
            \A i \in 1..Len(tasks) : TrackTaskOf(i, a) =>
               /\ (calls < MaxCalls /\ Len(tasks) < MaxTasks) =>
                     \A e \in StoreEvents : ENABLED TrackUsage(b, e[1], e[2], e[3])
               /\ \A j \in 1..Len(tasks) : TrackTaskOf(j, b) =>
                     ENABLED TrackUsageHset(j, TRUE))
    /\ [][ \A a \in SessionIds :
             ( /\ last'.op = "track_usage_call"
               /\ last'.sid # a
               /\ \E i \in 1..Len(tasks) : TrackTaskOf(i, a) ) =>
                  /\ session_costs'[last'.sid]
                        = Get(session_costs, last'.sid, 0) + tasks'[Len(tasks')].cost
                  /\ session_costs'[a] = session_costs[a] ]_vars

\* the call of s2, made while the call of s1 was suspended, has returned its
\* verdict and the call of s1 is suspended still
C31_Witness ==
    /\ last.op = "track_usage_return"
    /\ last.sid = "s2"
    /\ Verdict.session_cost = CostOf("s2")
    /\ Verdict.session_cost > 0
    /\ Len(tasks) = 1
    /\ TrackTaskOf(1, "s1")
    /\ tasks[1].new_cost = CostOf("s1")

----------------------------------------------------------------------------
(* start_session *)

\* the start_session call of last.sid has just returned: its expire was
\* answered, or its hset raised
StartSessionCompleted ==
    \/ last.op = "start_session_expire"
    \/ last.op = "start_session_hset" /\ ~StartSuspended(last.sid)
    \/ last.op = "start_session" /\ ~redis_client

\* C32: when start_session(id) has completed, the local entry of id has
\* cost 0, input and output token counters 0 and the time of the call as
\* start time, and a hash that the call wrote to the store holds the same
\* cost and counters -- whatever local state id had before the call.
C32_StartSessionResets ==
    StartSessionCompleted =>
        /\ Entry(last.sid).cost = Some(0)
        /\ InputOf(last.sid) = 0
        /\ OutputOf(last.sid) = 0
        /\ Entry(last.sid).start_time = Some(now)
        /\ ( /\ Has(redis, last.sid)
             /\ redis[last.sid].start_time = Entry(last.sid).start_time ) =>
               /\ redis[last.sid].cost = Some(CostOf(last.sid))
               /\ redis[last.sid].input_tokens = Some(InputOf(last.sid))
               /\ redis[last.sid].output_tokens = Some(OutputOf(last.sid))

----------------------------------------------------------------------------
(* Metrics *)

\* by how much the updates in seq move the metric
RECURSIVE MovedBy(_, _)
MovedBy(seq, metric) ==
    IF seq = << >> THEN 0
    ELSE (IF Head(seq).metric = metric THEN Head(seq).amount ELSE 0)
            + MovedBy(Tail(seq), metric)

\* C33: every step moves the active-session gauge by exactly the change in
\* the number of ids that hold a start time: up by one when an entry is
\* created, down by one when one is removed, not at all otherwise -- so the
\* gauge equals that number, for any sequence of start_session and
\* end_session calls, repeated starts of an id and ends of unknown ids included.
C33_GaugeCountsStartedIds ==
    [][ MovedBy(emitted', "active_sessions_total")
            = Cardinality(DOMAIN session_start_times')
                 - Cardinality(DOMAIN session_start_times) ]_vars

----------------------------------------------------------------------------
\* the connection of session s is still being handled
Connected(s) == \E i \in 1..Len(tasks) : HandlerOf(i, s)

\* C34: every session a WebSocket handler starts is ended on every path by
\* which the handler returns (breaker rejection, configuration failure,
\* agent initialisation failure, run error, normal completion): the ledger
\* holds an entry only for ids whose connection is still being handled.
C34_NoEntryOutlivesConnection ==
    \A s \in SessionIds : HasEntry(s) => Connected(s)

\* by how much the updates in seq move the metric's series with these labels
RECURSIVE MovedLabelled(_, _, _)
MovedLabelled(seq, metric, labels) ==
    IF seq = << >> THEN 0
    ELSE (IF Head(seq).metric = metric /\ Head(seq).labels = labels
          THEN Head(seq).amount ELSE 0)
            + MovedLabelled(Tail(seq), metric, labels)

\* a call of track_usage has just ended, by returning or by raising
TrackEnded == last.op \in TrackReturnOps \cup {"track_usage_raised"}

\* an admission check has just been made for session s and its verdict is false
JudgedFalse(s) ==
    /\ last.sid = s
    /\ \/ HasVerdict /\ ~Verdict.budget_ok
       \/ last.op = "check_budget_before_call" /\ ~last.result[1]

\* C35: the budget-violation counter of a session moves by exactly one in a
\* step that makes an admission check for that session with a false verdict
\* and not at all in any other step; every call of track_usage that ends has
\* made its one admission check, so it ends with a verdict.
C35_CounterCountsFalseVerdicts ==
    [][ /\ TrackEnded' => HasVerdict'
        /\ \A s \in SessionIds :
              MovedLabelled(emitted', "budget_exceeded_total", <<s>>)
                 = IF JudgedFalse(s)' THEN 1 ELSE 0
      ]_vars

----------------------------------------------------------------------------
(* track_openai_call *)

\* the step just taken was one invocation of the wrapper
Wrapped == last.op = "track_openai_call"

\* C36: a function wrapped by track_openai_call that returns a result is
\* executed exactly once per invocation of the wrapper, whether or not cost
\* tracking, the warning send or the WebSocket close fails.
C36_WrappedFunctionRunsOnce ==
    Wrapped /\ last.result[1].returned => last.result[1].executions = 1

\* the invocation tracked the call: track_usage returned its dict
Tracked == Wrapped /\ last.result[1].usage_result # None

\* the WebSocket calls of the invocation, in order
Websocket == last.result[1].websocket

WarningAt(i) == Websocket[i].type = Some("budget_warning")
ExceededAt(i) == Websocket[i].type = Some("budget_exceeded")
CloseAt(i) == Websocket[i].call = "close" /\ Websocket[i].code = Some(1008)

\* C37: for each tracked call the wrapper sends budget_warning iff the
\* returned session_cost >= budget_threshold_warning and budget_ok is true;
\* it sends budget_exceeded and then closes the WebSocket with code 1008 iff
\* budget_ok is false; the two outcomes exclude each other, and no close is
\* issued before the budget_exceeded message.
C37_WarningOrExceededThenClose ==
    Tracked =>
      LET usage_result == last.result[1].usage_result[1]
          calls_made == 1..Len(Websocket)
      IN  /\ (\E i \in calls_made : WarningAt(i))
                <=> /\ usage_result.session_cost >= budget_threshold_warning
                    /\ usage_result.budget_ok
          /\ (\E i \in calls_made : \E j \in calls_made :
                 i < j /\ ExceededAt(i) /\ CloseAt(j))
                <=> ~usage_result.budget_ok
          /\ ~ \E i \in calls_made : \E j \in calls_made :
                 WarningAt(i) /\ (ExceededAt(j) \/ Websocket[j].call = "close")
          /\ \A j \in calls_made :
                 Websocket[j].call = "close" => \E i \in 1..(j - 1) : ExceededAt(i)

----------------------------------------------------------------------------
(* check_budget_before_call *)

\* C39: check_budget_before_call returns true iff the verdict of check_budget
\* on the session's current ledger cost (0.0 for an id without entry) is
\* true, that is iff that cost is under the cap, the session is within its
\* duration (or unknown) and the breaker is inactive; the call leaves the
\* ledger as it is, an id without entry included, and does not poll the
\* breaker.
C39_BeforeCallIsVerdictOnLedgerCost ==
    [][ last'.op = "check_budget_before_call" =>
          /\ last'.result[1] = check_budget(last'.sid, CostOf(last'.sid)).budget_ok
          /\ last'.result[1] <=> /\ BudgetHolds(CostOf(last'.sid))
                                 /\ DurationHolds(last'.sid)
                                 /\ BreakerHolds
          /\ UNCHANGED <<ledger, breaker>> ]_vars

\* a session within its duration, the breaker inactive, refused for its
\* ledger cost alone
C39_Witness ==
    /\ last.op = "check_budget_before_call"
    /\ ~last.result[1]
    /\ CostOf(last.sid) >= max_session_cost_usd
    /\ DurationHolds(last.sid)
    /\ BreakerHolds

====
